---- MODULE Spec2Model ----
(***************************************************************************)
(* Model of the policy-engine crate (crates/policy-engine/src): the        *)
(* PolicyEvaluator state machine (add_policy, evaluate), the per-policy    *)
(* combining algorithms, Policy::sorted_rules, the condition evaluator and *)
(* the context path resolver; the canonical JSON writer, the hash chain and *)
(* the policy document loader.                                             *)
(*                                                                         *)
(* Conventions                                                             *)
(*   Option<T>      a sequence of length <= 1: None = <<>>, Some(x) = <<x>>*)
(*   Result<T>      [ok |-> TRUE, v |-> x]  or  [ok |-> FALSE, e |-> err]  *)
(*   serde_json::Value   a record tagged by t: null, bool, num, str, arr,  *)
(*                  obj; numbers in the model are integers                 *)
(*   String         a TLA+ string (Len, \o and SubSeq act on characters)   *)
(***************************************************************************)
EXTENDS Integers, Sequences, FiniteSets, TLC

VARIABLES
    policies,   \* PolicyEvaluator.policies: Vec<Policy>
    context,    \* Option: the context handed to evaluate, if it was the last call
    decisions,  \* the local `decisions` vector of that evaluate call
    result,     \* Option: the Result<PolicyDecision> that evaluate call returned
    calls,      \* history: the evaluate calls made since the policy list last
                \* changed, each with its context and outcome (kept by SpecPure)
    canon_value,    \* Option: the serde_json::Value handed to canonicalize
    canon_output,   \* Option: the Result<String> canonicalize returned for it
    chain,      \* the links made from GENESIS_HASH: prev_hash, cid, head_hash
    verified,   \* Option: the last verify_chain_link call and what it returned
    document,   \* Option: the text handed to a loading function
    loaded,     \* Option: the function called on it and the Result it returned
    added       \* history: the policies of the add and load calls that
                \* succeeded on the evaluator, in call order

evaluatorVars == <<policies, context, decisions, result, calls>>
canonVars == <<canon_value, canon_output>>
chainVars == <<chain, verified>>
loaderVars == <<document, loaded, added>>
vars == <<policies, context, decisions, result, calls, canon_value,
          canon_output, chain, verified, document, loaded, added>>

(***************************************************************************)
(* Bounds of the model                                                     *)
(***************************************************************************)
MaxPolicies == 2    \* policies held by one evaluator
MaxRules == 2       \* rules of a generated policy
MaxElapsed == 1     \* microseconds an evaluate call may take

(***************************************************************************)
(* i32 range of Rule.priority                                              *)
(***************************************************************************)
I32Min == -2147483647 - 1
I32Max == 2147483647

(***************************************************************************)
(* Option and Result                                                       *)
(***************************************************************************)
None == <<>>
Some(x) == <<x>>
is_some(o) == Len(o) > 0
is_none(o) == Len(o) = 0
unwrap(o) == o[1]

Ok(x) == [ok |-> TRUE, v |-> x]
Err(e) == [ok |-> FALSE, e |-> e]

\* the ? operator: an Err returns from the enclosing function, an Ok value
\* goes on into the rest of it
Try(r, Rest(_)) == IF r.ok THEN Rest(r.v) ELSE r

MissingField(f) == [type |-> "MissingField", msg |-> f]
ConditionError(m) == [type |-> "ConditionError", msg |-> m]

(***************************************************************************)
(* serde_json::Value                                                       *)
(***************************************************************************)
JNull == [t |-> "null"]
JBool(b) == [t |-> "bool", b |-> b]
JNum(n) == [t |-> "num", n |-> n]
JStr(s) == [t |-> "str", s |-> s]
JArr(a) == [t |-> "arr", a |-> a]
JObj(o) == [t |-> "obj", o |-> o]

as_str(v) == IF v.t = "str" THEN Some(v.s) ELSE None
as_array(v) == IF v.t = "arr" THEN Some(v.a) ELSE None
as_f64(v) == IF v.t = "num" THEN Some(v.n) ELSE None

\* Option<String> serialized by serde: null when None
JOptStr(o) == IF is_some(o) THEN JStr(unwrap(o)) ELSE JNull
\* Vec<String> serialized as an array of strings
JStrArr(ss) == JArr([i \in 1..Len(ss) |-> JStr(ss[i])])

(***************************************************************************)
(* decision.rs: PolicyDecision                                             *)
(***************************************************************************)
allow(reason) ==
    [decision |-> "allow", reason |-> reason, rule_id |-> None,
     policy_id |-> None, is_default |-> FALSE, evaluation_time_us |-> None,
     metadata |-> <<>>]

deny(reason) ==
    [decision |-> "deny", reason |-> reason, rule_id |-> None,
     policy_id |-> None, is_default |-> FALSE, evaluation_time_us |-> None,
     metadata |-> <<>>]

default_allow ==
    [decision |-> "allow", reason |-> "No matching rules - default allow",
     rule_id |-> None, policy_id |-> None, is_default |-> TRUE,
     evaluation_time_us |-> None, metadata |-> <<>>]

\* a deny built by PolicyDecision::deny with the default reason: is_default
\* stays false
default_deny_unmarked ==
    [decision |-> "deny", reason |-> "No matching rules - default deny",
     rule_id |-> None, policy_id |-> None, is_default |-> FALSE,
     evaluation_time_us |-> None, metadata |-> <<>>]

default_deny ==
    [decision |-> "deny", reason |-> "No matching rules - default deny",
     rule_id |-> None, policy_id |-> None, is_default |-> TRUE,
     evaluation_time_us |-> None, metadata |-> <<>>]

with_rule_id(d, id) == [d EXCEPT !.rule_id = Some(id)]
with_policy_id(d, id) == [d EXCEPT !.policy_id = Some(id)]
with_evaluation_time(d, us) == [d EXCEPT !.evaluation_time_us = Some(us)]

is_allowed(d) == d.decision = "allow"
is_denied(d) == d.decision = "deny"

(***************************************************************************)
(* context.rs: EvaluationContext                                           *)
(***************************************************************************)
\* str::split('.'): the segments between dots; "" splits into <<"">>
RECURSIVE split_from(_, _, _, _)
split_from(s, start, i, acc) ==
    IF i > Len(s) THEN Append(acc, SubSeq(s, start, Len(s)))
    ELSE IF SubSeq(s, i, i) = "."
         THEN split_from(s, i + 1, i + 1, Append(acc, SubSeq(s, start, i - 1)))
         ELSE split_from(s, start, i + 1, acc)

split(s) == split_from(s, 1, 1, <<>>)

\* &parts[1..]
rest(parts) == SubSeq(parts, 2, Len(parts))

identity_to_value(id) ==
    JObj([user_id |-> JStr(id.user_id), email |-> JStr(id.email),
          email_domain |-> JStr(id.email_domain),
          groups |-> JStrArr(id.groups), is_service |-> JBool(id.is_service)])

tenant_to_value(tn) ==
    JObj([tenant_id |-> JStr(tn.tenant_id), tenant_type |-> JStr(tn.tenant_type)])

resource_to_value(r) ==
    JObj([resource_type |-> JStr(r.resource_type),
          resource_id |-> JStr(r.resource_id),
          owner_id |-> JOptStr(r.owner_id),
          agreement_id |-> JOptStr(r.agreement_id)])

action_to_value(a) ==
    JObj([action_type |-> JStr(a.action_type), action_name |-> JStr(a.action_name)])

environment_to_value(e) ==
    JObj([timestamp |-> JOptStr(e.timestamp), request_id |-> JOptStr(e.request_id),
          ip_address |-> JOptStr(e.ip_address), user_agent |-> JOptStr(e.user_agent),
          attributes |-> JObj(e.attributes)])

\* Option<String>::as_ref().map(|v| json!(v))
map_json(o) == IF is_some(o) THEN Some(JStr(unwrap(o))) ELSE None

\* HashMap::get(key).cloned()
map_get(m, k) == IF k \in DOMAIN m THEN Some(m[k]) ELSE None

get_identity_field(ctx, parts) ==
    IF parts = <<>> THEN Some(identity_to_value(ctx.identity))
    ELSE CASE parts[1] = "user_id" -> Some(JStr(ctx.identity.user_id))
           [] parts[1] = "email" -> Some(JStr(ctx.identity.email))
           [] parts[1] = "email_domain" -> Some(JStr(ctx.identity.email_domain))
           [] parts[1] = "groups" -> Some(JStrArr(ctx.identity.groups))
           [] parts[1] = "is_service" -> Some(JBool(ctx.identity.is_service))
           [] OTHER -> None

get_tenant_field(ctx, parts) ==
    IF parts = <<>> THEN Some(tenant_to_value(ctx.tenant))
    ELSE CASE parts[1] = "tenant_id" -> Some(JStr(ctx.tenant.tenant_id))
           [] parts[1] = "tenant_type" -> Some(JStr(ctx.tenant.tenant_type))
           [] OTHER -> None

get_resource_field(ctx, parts) ==
    IF parts = <<>> THEN Some(resource_to_value(ctx.resource))
    ELSE CASE parts[1] = "resource_type" -> Some(JStr(ctx.resource.resource_type))
           [] parts[1] = "resource_id" -> Some(JStr(ctx.resource.resource_id))
           [] parts[1] = "owner_id" -> map_json(ctx.resource.owner_id)
           [] parts[1] = "agreement_id" -> map_json(ctx.resource.agreement_id)
           [] OTHER -> None

get_action_field(ctx, parts) ==
    IF parts = <<>> THEN Some(action_to_value(ctx.action))
    ELSE CASE parts[1] = "action_type" -> Some(JStr(ctx.action.action_type))
           [] parts[1] = "action_name" -> Some(JStr(ctx.action.action_name))
           [] OTHER -> None

get_environment_field(ctx, parts) ==
    IF parts = <<>> THEN Some(environment_to_value(ctx.environment))
    ELSE CASE parts[1] = "timestamp" -> map_json(ctx.environment.timestamp)
           [] parts[1] = "request_id" -> map_json(ctx.environment.request_id)
           [] parts[1] = "ip_address" -> map_json(ctx.environment.ip_address)
           [] parts[1] = "user_agent" -> map_json(ctx.environment.user_agent)
           [] parts[1] = "attributes" ->
                IF Len(parts) > 1 THEN map_get(ctx.environment.attributes, parts[2])
                ELSE Some(JObj(ctx.environment.attributes))
           [] OTHER -> None

get_value(ctx, field_path) ==
    LET parts == split(field_path) IN
    IF parts = <<>> THEN None
    ELSE CASE parts[1] = "identity" -> get_identity_field(ctx, rest(parts))
           [] parts[1] = "tenant" -> get_tenant_field(ctx, rest(parts))
           [] parts[1] = "resource" -> get_resource_field(ctx, rest(parts))
           [] parts[1] = "action" -> get_action_field(ctx, rest(parts))
           [] parts[1] = "role" -> map_json(ctx.role)
           [] parts[1] = "environment" -> get_environment_field(ctx, rest(parts))
           [] parts[1] = "attributes" ->
                IF Len(parts) > 1 THEN map_get(ctx.attributes, parts[2])
                ELSE Some(JObj(ctx.attributes))
           [] OTHER -> None

validate(ctx) ==
    IF ctx.identity.user_id = "" THEN Err(MissingField("identity.user_id"))
    ELSE IF ctx.tenant.tenant_id = "" THEN Err(MissingField("tenant.tenant_id"))
    ELSE IF ctx.resource.resource_id = "" THEN Err(MissingField("resource.resource_id"))
    ELSE Ok(TRUE)

(***************************************************************************)
(* String predicates of std::str used by the operators                     *)
(***************************************************************************)
str_contains(l, r) ==
    \E i \in 1..(Len(l) + 1) :
        /\ i + Len(r) - 1 <= Len(l)
        /\ SubSeq(l, i, i + Len(r) - 1) = r

starts_with(l, r) == Len(r) <= Len(l) /\ SubSeq(l, 1, Len(r)) = r

ends_with(l, r) == Len(r) <= Len(l) /\ SubSeq(l, Len(l) - Len(r) + 1, Len(l)) = r

\* Vec<Value>::contains / slice contains: element-wise equality
arr_contains(a, x) == \E i \in 1..Len(a) : a[i] = x

(***************************************************************************)
(* regex crate, restricted to the patterns the model feeds it: literal     *)
(* characters, an optional leading ^ and trailing $, and ( which is only   *)
(* ever used unclosed and makes Regex::new fail.                           *)
(***************************************************************************)
Regex_new(pattern) ==
    IF str_contains(pattern, "(")
    THEN Err(ConditionError("Invalid regex: unclosed group"))
    ELSE Ok(pattern)

regex_is_match(pattern, s) ==
    LET atStart == starts_with(pattern, "^")
        p1 == IF atStart THEN SubSeq(pattern, 2, Len(pattern)) ELSE pattern
        atEnd == ends_with(p1, "$")
        lit == IF atEnd THEN SubSeq(p1, 1, Len(p1) - 1) ELSE p1
    IN  CASE atStart /\ atEnd -> s = lit
          [] atStart /\ ~atEnd -> starts_with(s, lit)
          [] ~atStart /\ atEnd -> ends_with(s, lit)
          [] OTHER -> str_contains(s, lit)

(***************************************************************************)
(* evaluator.rs: conditions and operators                                  *)
(***************************************************************************)
compare_numbers(left, right, op) ==
    IF is_none(as_f64(left)) THEN Err(ConditionError("Left value is not a number"))
    ELSE IF is_none(as_f64(right)) THEN Err(ConditionError("Right value is not a number"))
    ELSE LET l == unwrap(as_f64(left))
             r == unwrap(as_f64(right))
         IN  Ok(CASE op = "greater_than" -> l > r
                  [] op = "less_than" -> l < r
                  [] op = "greater_than_or_equal" -> l >= r
                  [] op = "less_than_or_equal" -> l <= r)

op_contains(left, right) ==
    IF is_some(as_str(left)) /\ is_some(as_str(right))
    THEN Ok(str_contains(left.s, right.s))
    ELSE IF is_some(as_array(left)) THEN Ok(arr_contains(left.a, right))
    ELSE Ok(FALSE)

op_in(left, right) ==
    IF is_some(as_array(right)) THEN Ok(arr_contains(right.a, left))
    ELSE Ok(FALSE)

\* not_in read as "an array that does not hold the value"
evaluate_operator_not_in_array_only(operator, left, right) ==
    CASE operator = "equals" -> Ok(left = right)
      [] operator = "not_equals" -> Ok(left # right)
      [] operator = "contains" -> op_contains(left, right)
      [] operator = "not_contains" ->
            Try(op_contains(left, right), LAMBDA contains : Ok(~contains))
      [] operator = "starts_with" ->
            IF is_some(as_str(left)) /\ is_some(as_str(right))
            THEN Ok(starts_with(left.s, right.s)) ELSE Ok(FALSE)
      [] operator = "ends_with" ->
            IF is_some(as_str(left)) /\ is_some(as_str(right))
            THEN Ok(ends_with(left.s, right.s)) ELSE Ok(FALSE)
      [] operator = "matches" ->
            IF is_some(as_str(left)) /\ is_some(as_str(right))
            THEN Try(Regex_new(right.s),
                     LAMBDA regex : Ok(regex_is_match(regex, left.s)))
            ELSE Ok(FALSE)
      [] operator = "in" -> op_in(left, right)
      [] operator = "not_in" ->
            IF is_some(as_array(right))
            THEN Ok(~arr_contains(right.a, left)) ELSE Ok(FALSE)
      [] operator \in {"greater_than", "less_than", "greater_than_or_equal",
                       "less_than_or_equal"} ->
            compare_numbers(left, right, operator)
      [] operator \in {"exists", "not_exists"} -> Ok(FALSE)

\* evaluate_operator
evaluate_operator(operator, left, right) ==
    CASE operator = "equals" -> Ok(left = right)
      [] operator = "not_equals" -> Ok(left # right)
      [] operator = "contains" -> op_contains(left, right)
      [] operator = "not_contains" ->
            Try(op_contains(left, right), LAMBDA contains : Ok(~contains))
      [] operator = "starts_with" ->
            IF is_some(as_str(left)) /\ is_some(as_str(right))
            THEN Ok(starts_with(left.s, right.s)) ELSE Ok(FALSE)
      [] operator = "ends_with" ->
            IF is_some(as_str(left)) /\ is_some(as_str(right))
            THEN Ok(ends_with(left.s, right.s)) ELSE Ok(FALSE)
      [] operator = "matches" ->
            IF is_some(as_str(left)) /\ is_some(as_str(right))
            THEN Try(Regex_new(right.s),
                     LAMBDA regex : Ok(regex_is_match(regex, left.s)))
            ELSE Ok(FALSE)
      [] operator = "in" -> op_in(left, right)
      [] operator = "not_in" ->
            Try(op_in(left, right), LAMBDA is_in : Ok(~is_in))
      [] operator \in {"greater_than", "less_than", "greater_than_or_equal",
                       "less_than_or_equal"} ->
            compare_numbers(left, right, operator)
      [] operator \in {"exists", "not_exists"} -> Ok(FALSE)

\* the match with an absent field read as a condition that does not hold
match_operator_absent_false(condition, field_value) ==
    CASE condition.operator = "exists" -> Ok(is_some(field_value))
      [] condition.operator = "not_exists" -> Ok(is_none(field_value))
      [] OTHER ->
            IF is_none(field_value) THEN Ok(FALSE)
            ELSE evaluate_operator(condition.operator, unwrap(field_value),
                                   condition.value)

\* the match of evaluate_condition on the operator, given the field value
match_operator(condition, field_value) ==
    CASE condition.operator = "exists" -> Ok(is_some(field_value))
      [] condition.operator = "not_exists" -> Ok(is_none(field_value))
      [] OTHER ->
            IF is_none(field_value)
            THEN Err(ConditionError("Field '" \o condition.field \o "' not found"))
            ELSE evaluate_operator(condition.operator, unwrap(field_value),
                                   condition.value)

evaluate_condition(condition, ctx) ==
    match_operator(condition, get_value(ctx, condition.field))

\* the loop with the test inverted: it returns a match at the first
\* condition that holds
RECURSIVE evaluate_rule_from_any(_, _, _)
evaluate_rule_from_any(conditions, ctx, k) ==
    IF k > Len(conditions) THEN Ok(conditions = <<>>)
    ELSE Try(evaluate_condition(conditions[k], ctx),
             LAMBDA holds : IF holds THEN Ok(TRUE)
                            ELSE evaluate_rule_from_any(conditions, ctx, k + 1))

\* the loop run to the end of the list before the rule is decided
RECURSIVE evaluate_rule_from_eager(_, _, _)
evaluate_rule_from_eager(conditions, ctx, k) ==
    IF k > Len(conditions) THEN Ok(TRUE)
    ELSE Try(evaluate_condition(conditions[k], ctx),
             LAMBDA holds :
                 Try(evaluate_rule_from_eager(conditions, ctx, k + 1),
                     LAMBDA others : Ok(holds /\ others)))

\* the loop of evaluate_rule from condition k on: stops at the first
\* condition that errors or is false
RECURSIVE evaluate_rule_from(_, _, _)
evaluate_rule_from(conditions, ctx, k) ==
    IF k > Len(conditions) THEN Ok(TRUE)
    ELSE Try(evaluate_condition(conditions[k], ctx),
             LAMBDA holds : IF ~holds THEN Ok(FALSE)
                            ELSE evaluate_rule_from(conditions, ctx, k + 1))

evaluate_rule(rule, ctx) == evaluate_rule_from(rule.conditions, ctx, 1)

(***************************************************************************)
(* policy.rs: Policy::sorted_rules.  slice::sort_by is a stable sort; it   *)
(* is modelled as a stable insertion sort under the closure                *)
(* |a, b| b.priority.cmp(&a.priority).                                     *)
(***************************************************************************)
\* i32::cmp
cmp(x, y) == IF x < y THEN "Less" ELSE IF x = y THEN "Equal" ELSE "Greater"

\* i32 comparison by the sign of a wrapping subtraction x - y
cmp_wrapping_sub(x, y) ==
    IF x >= 0 /\ y < 0 /\ x > I32Max + y THEN "Less"
    ELSE IF x < 0 /\ y >= 0 /\ x < I32Min + y THEN "Greater"
    ELSE IF x < y THEN "Less" ELSE IF x = y THEN "Equal" ELSE "Greater"

\* the closure with the subtraction idiom in place of cmp
compare_priority_by_difference(a, b) == cmp_wrapping_sub(b.priority, a.priority)

\* the closure handed to sort_by
compare_priority(a, b) == cmp(b.priority, a.priority)

\* an insertion that puts x in front of the elements equal to it: the sort
\* is no longer stable
RECURSIVE insert_sorted_before_equals(_, _)
insert_sorted_before_equals(s, x) ==
    IF s = <<>> THEN <<x>>
    ELSE IF compare_priority(Head(s), x) # "Less" THEN <<x>> \o s
    ELSE <<Head(s)>> \o insert_sorted_before_equals(Tail(s), x)

\* x goes in front of the first element that must come after it, hence
\* behind every element that compares Equal to it
RECURSIVE insert_sorted(_, _)
insert_sorted(s, x) ==
    IF s = <<>> THEN <<x>>
    ELSE IF compare_priority(Head(s), x) = "Greater" THEN <<x>> \o s
    ELSE <<Head(s)>> \o insert_sorted(Tail(s), x)

RECURSIVE sort_by(_, _)
sort_by(rules, k) ==
    IF k = 0 THEN <<>> ELSE insert_sorted(sort_by(rules, k - 1), rules[k])

sorted_rules(policy) == sort_by(policy.rules, Len(policy.rules))

(***************************************************************************)
(* evaluator.rs: evaluate_policy                                           *)
(***************************************************************************)
\* the loop over sorted_rules from rule k on, collecting (effect, rule)
RECURSIVE collect_matched(_, _, _, _)
collect_matched(sorted, ctx, k, matched) ==
    IF k > Len(sorted) THEN Ok(matched)
    ELSE Try(evaluate_rule(sorted[k], ctx),
             LAMBDA is_match :
                collect_matched(sorted, ctx, k + 1,
                    IF is_match
                    THEN Append(matched, <<sorted[k].effect, sorted[k]>>)
                    ELSE matched))

\* the position of the first matched pair with the given effect, 0 if none
first_with_effect(matched, effect) ==
    IF \E i \in 1..Len(matched) : matched[i][1] = effect
    THEN CHOOSE i \in 1..Len(matched) :
            /\ matched[i][1] = effect
            /\ \A j \in 1..(i - 1) : matched[j][1] # effect
    ELSE 0

first_applicable(policy, matched) ==
    LET effect == matched[1][1]
        rule == matched[1][2]
        dec == IF effect = "allow"
               THEN allow("Rule '" \o rule.id \o "' matched")
               ELSE deny("Rule '" \o rule.id \o "' matched")
    IN  with_policy_id(with_rule_id(dec, rule.id), policy.id)

\* deny_overrides looking at the first matched rule only
deny_overrides_head_only(policy, matched) ==
    IF matched[1][1] = "deny"
    THEN with_policy_id(with_rule_id(
             deny("Rule '" \o matched[1][2].id \o "' denies"),
             matched[1][2].id), policy.id)
    ELSE with_policy_id(with_rule_id(
             allow("All matching rules allow"), matched[1][2].id), policy.id)

deny_overrides(policy, matched) ==
    LET i == first_with_effect(matched, "deny") IN
    IF i > 0
    THEN with_policy_id(with_rule_id(
             deny("Rule '" \o matched[i][2].id \o "' denies"),
             matched[i][2].id), policy.id)
    ELSE with_policy_id(with_rule_id(
             allow("All matching rules allow"), matched[1][2].id), policy.id)

\* allow_overrides with the loop of deny_overrides left in
allow_overrides_deny_loop(policy, matched) ==
    LET i == first_with_effect(matched, "deny") IN
    IF i > 0
    THEN with_policy_id(with_rule_id(
             deny("Rule '" \o matched[i][2].id \o "' denies"),
             matched[i][2].id), policy.id)
    ELSE with_policy_id(with_rule_id(
             allow("Rule '" \o matched[1][2].id \o "' allows"),
             matched[1][2].id), policy.id)

allow_overrides(policy, matched) ==
    LET i == first_with_effect(matched, "allow") IN
    IF i > 0
    THEN with_policy_id(with_rule_id(
             allow("Rule '" \o matched[i][2].id \o "' allows"),
             matched[i][2].id), policy.id)
    ELSE with_policy_id(with_rule_id(
             deny("All matching rules deny"), matched[1][2].id), policy.id)

unanimous_allow(policy, matched) ==
    LET i == first_with_effect(matched, "deny") IN
    IF i > 0
    THEN with_policy_id(with_rule_id(
             deny("Rule '" \o matched[i][2].id \o "' denies (unanimous allow required)"),
             matched[i][2].id), policy.id)
    ELSE with_policy_id(with_rule_id(
             allow("All rules unanimously allow"), matched[1][2].id), policy.id)

\* unanimous_deny with the test of unanimous_allow left in
unanimous_deny_unflipped(policy, matched) ==
    LET i == first_with_effect(matched, "deny") IN
    IF i > 0
    THEN with_policy_id(with_rule_id(
             deny("Rule '" \o matched[i][2].id \o "' denies (unanimous allow required)"),
             matched[i][2].id), policy.id)
    ELSE with_policy_id(with_rule_id(
             allow("All rules unanimously allow"), matched[1][2].id), policy.id)

unanimous_deny(policy, matched) ==
    LET i == first_with_effect(matched, "allow") IN
    IF i > 0
    THEN with_policy_id(with_rule_id(
             allow("Rule '" \o matched[i][2].id \o "' allows (unanimous deny required)"),
             matched[i][2].id), policy.id)
    ELSE with_policy_id(with_rule_id(
             deny("All rules unanimously deny"), matched[1][2].id), policy.id)

\* the no-match decision with default_effect ignored
no_match_always_deny(policy) == with_policy_id(default_deny, policy.id)

no_match_decision(policy) ==
    with_policy_id(IF policy.default_effect = "allow"
                   THEN default_allow ELSE default_deny, policy.id)

\* evaluate_policy once the matched rules are collected
decide(policy, matched) ==
    IF matched = <<>> THEN no_match_decision(policy)
    ELSE CASE policy.combining_algorithm = "first_applicable" ->
                first_applicable(policy, matched)
           [] policy.combining_algorithm = "deny_overrides" ->
                deny_overrides(policy, matched)
           [] policy.combining_algorithm = "allow_overrides" ->
                allow_overrides(policy, matched)
           [] policy.combining_algorithm = "unanimous_allow" ->
                unanimous_allow(policy, matched)
           [] policy.combining_algorithm = "unanimous_deny" ->
                unanimous_deny(policy, matched)

evaluate_policy(policy, ctx) ==
    Try(collect_matched(sorted_rules(policy), ctx, 1, <<>>),
        LAMBDA matched : Ok(decide(policy, matched)))

(***************************************************************************)
(* evaluator.rs: combine_decisions                                         *)
(***************************************************************************)
\* Iterator::find: the first element satisfying the predicate, as an Option
\* the last denying decision in place of the first
find_denied_last(ds) ==
    IF \E i \in 1..Len(ds) : is_denied(ds[i])
    THEN Some(ds[CHOOSE i \in 1..Len(ds) :
                    /\ is_denied(ds[i])
                    /\ \A j \in (i + 1)..Len(ds) : ~is_denied(ds[j])])
    ELSE None

find_denied(ds) ==
    IF \E i \in 1..Len(ds) : is_denied(ds[i])
    THEN Some(ds[CHOOSE i \in 1..Len(ds) :
                    /\ is_denied(ds[i])
                    /\ \A j \in 1..(i - 1) : ~is_denied(ds[j])])
    ELSE None

\* the last allowing decision in place of the first
find_allowed_last(ds) ==
    IF \E i \in 1..Len(ds) : is_allowed(ds[i])
    THEN Some(ds[CHOOSE i \in 1..Len(ds) :
                    /\ is_allowed(ds[i])
                    /\ \A j \in (i + 1)..Len(ds) : ~is_allowed(ds[j])])
    ELSE None

find_allowed(ds) ==
    IF \E i \in 1..Len(ds) : is_allowed(ds[i])
    THEN Some(ds[CHOOSE i \in 1..Len(ds) :
                    /\ is_allowed(ds[i])
                    /\ \A j \in 1..(i - 1) : ~is_allowed(ds[j])])
    ELSE None

unwrap_or(o, d) == IF is_some(o) THEN unwrap(o) ELSE d

\* the branches of allow_overrides taken whatever the algorithm
combine_decisions_allow_wins(ds, algorithm) ==
    IF ds = <<>> THEN default_deny
    ELSE IF is_some(find_allowed(ds)) THEN unwrap(find_allowed(ds))
    ELSE unwrap_or(find_denied(ds), default_deny)

combine_decisions(ds, algorithm) ==
    IF ds = <<>> THEN default_deny
    ELSE CASE algorithm = "first_applicable" -> ds[1]
           [] algorithm = "deny_overrides" ->
                IF is_some(find_denied(ds)) THEN unwrap(find_denied(ds))
                ELSE unwrap_or(find_allowed(ds), default_deny)
           [] algorithm = "allow_overrides" ->
                IF is_some(find_allowed(ds)) THEN unwrap(find_allowed(ds))
                ELSE unwrap_or(find_denied(ds), default_deny)
           [] algorithm = "unanimous_allow" ->
                IF \A i \in 1..Len(ds) : is_allowed(ds[i]) THEN ds[1]
                ELSE unwrap_or(find_denied(ds), default_deny)
           [] algorithm = "unanimous_deny" ->
                IF \A i \in 1..Len(ds) : is_denied(ds[i]) THEN ds[1]
                ELSE unwrap_or(find_allowed(ds), default_allow)

(***************************************************************************)
(* evaluator.rs: the policy loop of evaluate from policy k on; it stops at *)
(* the first policy whose evaluation errors                                *)
(***************************************************************************)
\* what the loop yields: the decisions pushed so far and, when a policy
\* errored, the error
Completed(ds) == [ok |-> TRUE, decisions |-> ds]
Aborted(ds, e) == [ok |-> FALSE, decisions |-> ds, e |-> e]

\* match on a Result
Match(r, OnOk(_), OnErr(_)) == IF r.ok THEN OnOk(r.v) ELSE OnErr(r.e)

\* the policy loop with an erroring policy counted as a default deny
RECURSIVE evaluate_each_error_denies(_, _, _, _)
evaluate_each_error_denies(ps, ctx, k, ds) ==
    IF k > Len(ps) THEN Completed(ds)
    ELSE Match(evaluate_policy(ps[k], ctx),
               LAMBDA d : evaluate_each_error_denies(ps, ctx, k + 1, Append(ds, d)),
               LAMBDA e : evaluate_each_error_denies(ps, ctx, k + 1,
                              Append(ds, with_policy_id(default_deny, ps[k].id))))

\* the policy loop left at the first policy that denies
RECURSIVE evaluate_each_until_deny(_, _, _, _)
evaluate_each_until_deny(ps, ctx, k, ds) ==
    IF k > Len(ps) THEN Completed(ds)
    ELSE Match(evaluate_policy(ps[k], ctx),
               LAMBDA d : IF is_denied(d) THEN Completed(Append(ds, d))
                          ELSE evaluate_each_until_deny(ps, ctx, k + 1,
                                                        Append(ds, d)),
               LAMBDA e : Aborted(ds, e))

RECURSIVE evaluate_each(_, _, _, _)
evaluate_each(ps, ctx, k, ds) ==
    IF k > Len(ps) THEN Completed(ds)
    ELSE Match(evaluate_policy(ps[k], ctx),
               LAMBDA d : evaluate_each(ps, ctx, k + 1, Append(ds, d)),
               LAMBDA e : Aborted(ds, e))

\* the end of evaluate: the decisions are combined and the time attached
finish(run, elapsed) ==
    [decisions |-> run.decisions,
     result |-> IF run.ok
                THEN Ok(with_evaluation_time(
                         combine_decisions(run.decisions, "deny_overrides"),
                         elapsed))
                ELSE Err(run.e)]

\* evaluate with the context validated after the no-policies return
evaluate_validate_late(ps, ctx, elapsed) ==
    IF ps = <<>>
    THEN [decisions |-> <<>>,
          result |-> Ok(with_evaluation_time(default_deny, elapsed))]
    ELSE IF ~validate(ctx).ok
    THEN [decisions |-> <<>>, result |-> Err(validate(ctx).e)]
    ELSE finish(evaluate_each(ps, ctx, 1, <<>>), elapsed)

\* PolicyEvaluator::evaluate as a function of the policies held, the context
\* and the time start.elapsed() reads on return: the decisions vector built
\* and the value returned
\* an evaluator that keeps returning the error of its last call
evaluate_call_poisoned(ps, ctx, elapsed) ==
    IF is_some(result) /\ ~unwrap(result).ok
    THEN [decisions |-> decisions, result |-> unwrap(result)]
    ELSE Match(validate(ctx),
               LAMBDA valid :
                   IF ps = <<>>
                   THEN [decisions |-> <<>>,
                         result |-> Ok(with_evaluation_time(default_deny, elapsed))]
                   ELSE finish(evaluate_each(ps, ctx, 1, <<>>), elapsed),
               LAMBDA e : [decisions |-> <<>>, result |-> Err(e)])

evaluate_call(ps, ctx, elapsed) ==
    IF ~validate(ctx).ok
    THEN [decisions |-> <<>>, result |-> Err(validate(ctx).e)]
    ELSE IF ps = <<>>
    THEN [decisions |-> <<>>,
          result |-> Ok(with_evaluation_time(default_deny, elapsed))]
    ELSE finish(evaluate_each(ps, ctx, 1, <<>>), elapsed)

(***************************************************************************)
(* Characters.  A string is a TLA+ string and a character a string of      *)
(* length one; the characters of the model are the printable ASCII         *)
(* characters but the grave accent, and TAB, LF, FF, CR; their UTF-8       *)
(* encoding is the one byte of their code.                                 *)
(***************************************************************************)
\* the characters U+0020..U+005F and U+0061..U+007E in code order
PrintableLow ==
    " !\"#$%&'(" \o ")*+,-./0123456789:;<=>?@ABCDEFGHIJKLMNOPQRSTUVWXYZ[\\]^_"

PrintableHigh == "abcdefghijklmnopqrstuvwxyz{|}~"

char_at(s, i) == SubSeq(s, i, i)

\* c as u32
char_code(c) ==
    CASE c = "\t" -> 9
      [] c = "\n" -> 10
      [] c = "\f" -> 12
      [] c = "\r" -> 13
      [] \E p \in 1..Len(PrintableLow) : char_at(PrintableLow, p) = c ->
            31 + CHOOSE p \in 1..Len(PrintableLow) : char_at(PrintableLow, p) = c
      [] OTHER ->
            96 + CHOOSE p \in 1..Len(PrintableHigh) : char_at(PrintableHigh, p) = c

\* char::from_u32, None outside the characters of the model
from_u32(code) ==
    CASE code = 9 -> Some("\t")
      [] code = 10 -> Some("\n")
      [] code = 12 -> Some("\f")
      [] code = 13 -> Some("\r")
      [] code >= 32 /\ code <= 95 -> Some(char_at(PrintableLow, code - 31))
      [] code >= 97 /\ code <= 126 -> Some(char_at(PrintableHigh, code - 96))
      [] OTHER -> None

\* char::is_control: the category Cc, U+0000..U+001F and U+007F..U+009F
is_control(c) ==
    char_code(c) < 32 \/ (char_code(c) >= 127 /\ char_code(c) <= 159)

HexDigits == "0123456789abcdef"

hex_digit(n) == char_at(HexDigits, n + 1)

\* format!("{:04x}", n) for n < 65536
hex4(n) ==
    hex_digit((n \div 4096) % 16) \o hex_digit((n \div 256) % 16)
        \o hex_digit((n \div 16) % 16) \o hex_digit(n % 16)

\* str::replace(from, to): the non-overlapping matches of from, left to right
RECURSIVE replace_from(_, _, _, _)
replace_from(s, from, to, i) ==
    IF i > Len(s) THEN ""
    ELSE IF i + Len(from) - 1 <= Len(s) /\ SubSeq(s, i, i + Len(from) - 1) = from
         THEN to \o replace_from(s, from, to, i + Len(from))
         ELSE char_at(s, i) \o replace_from(s, from, to, i + 1)

replace(s, from, to) == replace_from(s, from, to, 1)

\* Ord for str: byte-wise lexicographic, a proper prefix comes first
RECURSIVE str_cmp_from(_, _, _)
str_cmp_from(a, b, i) ==
    IF i > Len(a) /\ i > Len(b) THEN "Equal"
    ELSE IF i > Len(a) THEN "Less"
    ELSE IF i > Len(b) THEN "Greater"
    ELSE IF char_code(char_at(a, i)) < char_code(char_at(b, i)) THEN "Less"
    ELSE IF char_code(char_at(a, i)) > char_code(char_at(b, i)) THEN "Greater"
    ELSE str_cmp_from(a, b, i + 1)

str_cmp(a, b) == str_cmp_from(a, b, 1)

(***************************************************************************)
(* serde_json::Map as the sequence of <<key, value>> entries, keys         *)
(* distinct, in the order keys() and iteration yield them (sorted for the  *)
(* default BTreeMap, insertion order with preserve_order)                   *)
(***************************************************************************)
JMap(entries) == [t |-> "obj", m |-> entries]

\* Map::keys().collect()
map_keys(entries) == [i \in 1..Len(entries) |-> entries[i][1]]

\* Map::get
RECURSIVE map_lookup_from(_, _, _)
map_lookup_from(entries, key, i) ==
    IF i > Len(entries) THEN None
    ELSE IF entries[i][1] = key THEN Some(entries[i][2])
    ELSE map_lookup_from(entries, key, i + 1)

map_lookup(entries, key) == map_lookup_from(entries, key, 1)

\* Map::insert: a new key goes last, a known key keeps its place and takes
\* the new value
map_insert(entries, key, v) ==
    IF \E i \in 1..Len(entries) : entries[i][1] = key
    THEN [i \in 1..Len(entries) |->
             IF entries[i][1] = key THEN <<key, v>> ELSE entries[i]]
    ELSE Append(entries, <<key, v>>)

(***************************************************************************)
(* canonicalization.rs                                                     *)
(***************************************************************************)
\* the match arm of write_escaped_string for one character
escape_char_raw_backslash(c) ==
    CASE c = "\"" -> "\\\""
      [] c = "\n" -> "\\n"
      [] c = "\r" -> "\\r"
      [] c = "\t" -> "\\t"
      [] c \notin {"\"", "\n", "\r", "\t"} /\ c # "\\" /\ is_control(c) ->
            "\\u" \o hex4(char_code(c))
      [] OTHER -> c

escape_char(c) ==
    CASE c = "\"" -> "\\\""
      [] c = "\\" -> "\\\\"
      [] c = "\n" -> "\\n"
      [] c = "\r" -> "\\r"
      [] c = "\t" -> "\\t"
      [] c \notin {"\"", "\\", "\n", "\r", "\t"} /\ is_control(c) ->
            "\\u" \o hex4(char_code(c))
      [] OTHER -> c

RECURSIVE escape_from(_, _)
escape_from(s, i) ==
    IF i > Len(s) THEN ""
    ELSE escape_char(char_at(s, i)) \o escape_from(s, i + 1)

write_escaped_string(s) == "\"" \o escape_from(s, 1) \o "\""

\* the normalization with the bare CR forgotten
normalize_line_endings_crlf_only(s) == replace(s, "\r\n", "\n")

\* the two replace calls: CR LF by LF, then CR by LF
normalize_line_endings(s) == replace(replace(s, "\r\n", "\n"), "\r", "\n")

\* write!(writer, "{}", n) for an integer Number
write_number(n) == ToString(n)

\* keys.sort() left out
sort_keys_unsorted(keys) == keys

\* keys.sort(): ascending by Ord for String
RECURSIVE insert_key(_, _)
insert_key(sorted, key) ==
    IF sorted = <<>> THEN <<key>>
    ELSE IF str_cmp(key, Head(sorted)) = "Less" THEN <<key>> \o sorted
    ELSE <<Head(sorted)>> \o insert_key(Tail(sorted), key)

RECURSIVE sort_keys_from(_, _)
sort_keys_from(keys, k) ==
    IF k = 0 THEN <<>> ELSE insert_key(sort_keys_from(keys, k - 1), keys[k])

sort_keys(keys) == sort_keys_from(keys, Len(keys))

RECURSIVE write_canonical(_)
RECURSIVE write_items(_, _)
RECURSIVE write_entries(_, _, _)

\* the loop over the items of an array, from item k on
write_items(arr, k) ==
    IF k > Len(arr) THEN ""
    ELSE (IF k > 1 THEN "," ELSE "") \o write_canonical(arr[k])
             \o write_items(arr, k + 1)

\* the loop writing every key with its line endings normalised
RECURSIVE write_entries_keys_normalized(_, _, _)
write_entries_keys_normalized(entries, keys, k) ==
    IF k > Len(keys) THEN ""
    ELSE (IF k > 1 THEN "," ELSE "")
             \o write_escaped_string(normalize_line_endings(keys[k])) \o ":"
             \o write_canonical(unwrap(map_lookup(entries, keys[k])))
             \o write_entries_keys_normalized(entries, keys, k + 1)

\* the loop over the sorted keys of an object, from key k on
write_entries(entries, keys, k) ==
    IF k > Len(keys) THEN ""
    ELSE (IF k > 1 THEN "," ELSE "") \o write_escaped_string(keys[k]) \o ":"
             \o write_canonical(unwrap(map_lookup(entries, keys[k])))
             \o write_entries(entries, keys, k + 1)

write_canonical(v) ==
    CASE v.t = "null" -> "null"
      [] v.t = "bool" -> IF v.b THEN "true" ELSE "false"
      [] v.t = "num" -> write_number(v.n)
      [] v.t = "str" -> write_escaped_string(normalize_line_endings(v.s))
      [] v.t = "arr" -> "[" \o write_items(v.a, 1) \o "]"
      [] v.t = "obj" ->
            "{" \o write_entries(v.m, sort_keys(map_keys(v.m)), 1) \o "}"

\* writing to a Vec<u8> cannot fail and the bytes written are UTF-8
canonicalize(v) == Ok(write_canonical(v))

(***************************************************************************)
(* serde_json::from_str, as far as canonical output needs it: the literals,*)
(* integers, strings with their escapes, arrays and objects, whitespace    *)
(* between tokens.  A parse step returns the value and the index of the    *)
(* next character.                                                         *)
(***************************************************************************)
SyntaxError(m) == [type |-> "JsonError", msg |-> m]

At(v, i) == [v |-> v, i |-> i]

Whitespace == {" ", "\n", "\t", "\r"}

Digits == {"0", "1", "2", "3", "4", "5", "6", "7", "8", "9"}

RECURSIVE skip_whitespace(_, _)
skip_whitespace(s, i) ==
    IF i <= Len(s) /\ char_at(s, i) \in Whitespace
    THEN skip_whitespace(s, i + 1) ELSE i

\* the value of a hexadecimal digit, None for another character
hex_value(c) ==
    IF \E n \in 0..15 : hex_digit(n) = c
    THEN Some(CHOOSE n \in 0..15 : hex_digit(n) = c)
    ELSE IF c \in {"A", "B", "C", "D", "E", "F"}
         THEN Some(char_code(c) - 55)
         ELSE None

\* the four hexadecimal digits of a \u escape at s[i..i+3]
parse_hex4(s, i) ==
    IF i + 3 > Len(s) \/ \E k \in 0..3 : is_none(hex_value(char_at(s, i + k)))
    THEN None
    ELSE Some(unwrap(hex_value(char_at(s, i))) * 4096
              + unwrap(hex_value(char_at(s, i + 1))) * 256
              + unwrap(hex_value(char_at(s, i + 2))) * 16
              + unwrap(hex_value(char_at(s, i + 3))))

\* the character an escape letter stands for, None for an invalid escape
\* (\b is outside the characters of the model)
unescape(e) ==
    CASE e = "\"" -> Some("\"")
      [] e = "\\" -> Some("\\")
      [] e = "/" -> Some("/")
      [] e = "f" -> Some("\f")
      [] e = "n" -> Some("\n")
      [] e = "r" -> Some("\r")
      [] e = "t" -> Some("\t")
      [] OTHER -> None

\* the body of a string from s[i] on, the opening quote already read
RECURSIVE parse_string(_, _, _)
parse_string(s, i, acc) ==
    IF i > Len(s) THEN Err(SyntaxError("EOF while parsing a string"))
    ELSE IF char_at(s, i) = "\"" THEN Ok(At(acc, i + 1))
    ELSE IF char_at(s, i) = "\\"
    THEN IF i + 1 > Len(s) THEN Err(SyntaxError("EOF while parsing a string"))
         ELSE IF char_at(s, i + 1) = "u"
         THEN IF is_none(parse_hex4(s, i + 2))
                 \/ is_none(from_u32(unwrap(parse_hex4(s, i + 2))))
              THEN Err(SyntaxError("invalid escape"))
              ELSE parse_string(s, i + 6,
                       acc \o unwrap(from_u32(unwrap(parse_hex4(s, i + 2)))))
         ELSE IF is_none(unescape(char_at(s, i + 1)))
              THEN Err(SyntaxError("invalid escape"))
              ELSE parse_string(s, i + 2, acc \o unwrap(unescape(char_at(s, i + 1))))
    ELSE IF char_code(char_at(s, i)) < 32
    THEN Err(SyntaxError("control character found while parsing a string"))
    ELSE parse_string(s, i + 1, acc \o char_at(s, i))

\* the digits of a number from s[i] on
RECURSIVE parse_digits(_, _, _)
parse_digits(s, i, acc) ==
    IF i <= Len(s) /\ char_at(s, i) \in Digits
    THEN parse_digits(s, i + 1, acc * 10 + (char_code(char_at(s, i)) - 48))
    ELSE At(acc, i)

parse_number(s, i) ==
    IF char_at(s, i) = "-"
    THEN IF i + 1 <= Len(s) /\ char_at(s, i + 1) \in Digits
         THEN Ok(At(JNum(0 - parse_digits(s, i + 1, 0).v),
                    parse_digits(s, i + 1, 0).i))
         ELSE Err(SyntaxError("invalid number"))
    ELSE Ok(At(JNum(parse_digits(s, i, 0).v), parse_digits(s, i, 0).i))

parse_literal(s, i, word, v) ==
    IF i + Len(word) - 1 <= Len(s) /\ SubSeq(s, i, i + Len(word) - 1) = word
    THEN Ok(At(v, i + Len(word)))
    ELSE Err(SyntaxError("expected ident"))

RECURSIVE parse_value(_, _)
RECURSIVE parse_elements(_, _, _)
RECURSIVE parse_members(_, _, _)
RECURSIVE parse_member_value(_, _, _, _)

\* after an element of an array: a comma and the next element, or ]
parse_elements(s, i, acc) ==
    IF i > Len(s) THEN Err(SyntaxError("EOF while parsing a list"))
    ELSE IF char_at(s, i) = "]" THEN Ok(At(JArr(acc), i + 1))
    ELSE IF acc # <<>> /\ char_at(s, i) # ","
    THEN Err(SyntaxError("expected , or ]"))
    ELSE Try(parse_value(s, IF acc = <<>> THEN i ELSE i + 1),
             LAMBDA item :
                 parse_elements(s, skip_whitespace(s, item.i), Append(acc, item.v)))

\* the value of a member whose key has been read, s[i] being the colon
parse_member_value(s, i, acc, key) ==
    IF i > Len(s) \/ char_at(s, i) # ":" THEN Err(SyntaxError("expected :"))
    ELSE Try(parse_value(s, i + 1),
             LAMBDA member :
                 parse_members(s, skip_whitespace(s, member.i),
                               map_insert(acc, key, member.v)))

\* after a member of an object: a comma and the next member, or }
parse_members(s, i, acc) ==
    IF i > Len(s) THEN Err(SyntaxError("EOF while parsing an object"))
    ELSE IF char_at(s, i) = "}" THEN Ok(At(JMap(acc), i + 1))
    ELSE IF acc # <<>> /\ char_at(s, i) # ","
    THEN Err(SyntaxError("expected , or }"))
    ELSE IF skip_whitespace(s, IF acc = <<>> THEN i ELSE i + 1) > Len(s)
            \/ char_at(s, skip_whitespace(s, IF acc = <<>> THEN i ELSE i + 1)) # "\""
    THEN Err(SyntaxError("key must be a string"))
    ELSE Try(parse_string(s, skip_whitespace(s, IF acc = <<>> THEN i ELSE i + 1) + 1, ""),
             LAMBDA key :
                 parse_member_value(s, skip_whitespace(s, key.i), acc, key.v))

parse_value_at(s, i) ==
    IF i > Len(s) THEN Err(SyntaxError("EOF while parsing a value"))
    ELSE CASE char_at(s, i) = "n" -> parse_literal(s, i, "null", JNull)
           [] char_at(s, i) = "t" -> parse_literal(s, i, "true", JBool(TRUE))
           [] char_at(s, i) = "f" -> parse_literal(s, i, "false", JBool(FALSE))
           [] char_at(s, i) = "\"" ->
                 Try(parse_string(s, i + 1, ""),
                     LAMBDA str : Ok(At(JStr(str.v), str.i)))
           [] char_at(s, i) = "[" ->
                 parse_elements(s, skip_whitespace(s, i + 1), <<>>)
           [] char_at(s, i) = "{" ->
                 parse_members(s, skip_whitespace(s, i + 1), <<>>)
           [] char_at(s, i) = "-" \/ char_at(s, i) \in Digits -> parse_number(s, i)
           [] OTHER -> Err(SyntaxError("expected value"))

parse_value(s, i) == parse_value_at(s, skip_whitespace(s, i))

\* serde_json::from_str: one value and nothing but whitespace after it
from_str(s) ==
    Try(parse_value(s, 1),
        LAMBDA parsed :
            IF skip_whitespace(s, parsed.i) <= Len(s)
            THEN Err(SyntaxError("trailing characters"))
            ELSE Ok(parsed.v))

\* wasm.rs: canonicalize_json
canonicalize_json(json) ==
    Try(from_str(json), LAMBDA parsed : canonicalize(parsed))

(***************************************************************************)
(* hash.rs                                                                 *)
(***************************************************************************)
\* s.as_bytes(), for the one-byte characters
as_bytes(s) == [i \in 1..Len(s) |-> char_code(char_at(s, i))]

\* Sha256::new(), update(data), finalize(). The digest is reduced to two
\* bytes, folded from the bytes of the data in order; like the 32-byte
\* digest it is a function of the data alone and has a fixed length, and
\* unlike it collisions are within reach, so nothing here is to rely on
\* their absence.
RECURSIVE sha256_update(_, _, _)
sha256_update(data, k, h) ==
    IF k > Len(data) THEN h
    ELSE sha256_update(data, k + 1, (h * 31 + data[k]) % 65536)

sha256_finalize(h) == <<h \div 256, h % 256>>

sha256(data) == sha256_finalize(sha256_update(data, 1, 27145))

\* hex::encode: two lowercase hex digits for each byte
RECURSIVE hex_encode_from(_, _)
hex_encode_from(bytes, k) ==
    IF k > Len(bytes) THEN ""
    ELSE hex_digit(bytes[k] \div 16) \o hex_digit(bytes[k] % 16)
             \o hex_encode_from(bytes, k + 1)

hex_encode(bytes) == hex_encode_from(bytes, 1)

sha256_hex(data) == hex_encode(sha256(data))

sha256_str(s) == sha256_hex(as_bytes(s))

compute_cid(data) == "c:" \o sha256_str(data)

\* the joined string with the length of prev_hash written ahead of it
compute_head_hash_length_prefixed(prev_hash, cid) ==
    "h:" \o sha256_str(ToString(Len(prev_hash)) \o ":" \o prev_hash \o ":" \o cid)

compute_head_hash(prev_hash, cid) == "h:" \o sha256_str(prev_hash \o ":" \o cid)

GENESIS_HASH == "h:genesis"

compute_body_hash(body) == "b:" \o sha256_str(body)

\* canonicalization.rs: canonical_hash
canonical_hash(value) ==
    Try(canonicalize(value), LAMBDA canonical : Ok(sha256_str(canonical)))

\* a verification that recomputes every link from the genesis hash
verify_chain_link_from_genesis(prev_hash, cid, expected_hash) ==
    compute_head_hash(GENESIS_HASH, cid) = expected_hash

verify_chain_link(prev_hash, cid, expected_hash) ==
    compute_head_hash(prev_hash, cid) = expected_hash

(***************************************************************************)
(* Inputs: contexts                                                        *)
(***************************************************************************)
Roles == {"guest", "member", "admin", "owner"}

EmptyEnvironment ==
    [timestamp |-> None, request_id |-> None, ip_address |-> None,
     user_agent |-> None, attributes |-> <<>>]

\* create_test_context of the evaluator's tests, with the identifiers, the
\* role and the resource owner left open
MkContext(user_id, tenant_id, resource_id, role, owner_id) ==
    [identity |-> [user_id |-> user_id, email |-> "test@example.com",
                   email_domain |-> "example.com", groups |-> <<"developers">>,
                   is_service |-> FALSE],
     tenant |-> [tenant_id |-> tenant_id, tenant_type |-> "customer"],
     resource |-> [resource_type |-> "room", resource_id |-> resource_id,
                   owner_id |-> owner_id, agreement_id |-> None],
     action |-> [action_type |-> "write", action_name |-> "messenger.send"],
     role |-> role,
     environment |-> EmptyEnvironment,
     attributes |-> <<>>]

ContextRoles == {None, Some("guest"), Some("member")}

\* valid contexts: every role, the resource owned or not
ValidContexts ==
    {MkContext("u:test", "t:example.com", "r:general", role, owner) :
        role \in ContextRoles, owner \in {None, Some("u:owner")}}

\* contexts with at least one of the three required identifiers empty
InvalidContexts ==
    {MkContext(u, t, r, Some("member"), None) :
        u \in {"", "u:test"}, t \in {"", "t:example.com"},
        r \in {"", "r:general"}}
    \ {MkContext("u:test", "t:example.com", "r:general", Some("member"), None)}

Contexts == ValidContexts \cup InvalidContexts

\* valid contexts without a resource owner, one for each role
PolicyContexts ==
    {MkContext("u:test", "t:example.com", "r:general", role, None) :
        role \in ContextRoles}

(***************************************************************************)
(* Inputs: policies                                                        *)
(***************************************************************************)
Effects == {"allow", "deny"}

Algorithms ==
    {"first_applicable", "deny_overrides", "allow_overrides",
     "unanimous_allow", "unanimous_deny"}

MkCondition(field, operator, value) ==
    [field |-> field, operator |-> operator, value |-> value]

MkRule(id, effect, conditions, priority) ==
    [id |-> id, description |-> None, effect |-> effect,
     conditions |-> conditions, priority |-> priority]

MkPolicy(id, name, rules, algorithm, default) ==
    [id |-> id, version |-> "1.0.0", name |-> name, description |-> None,
     rules |-> rules, combining_algorithm |-> algorithm,
     default_effect |-> default, metadata |-> <<>>]

RoleIs(role) == MkCondition("role", "equals", JStr(role))

\* the policy of test_basic_evaluation
BasicPolicy ==
    MkPolicy("basic-policy", "Basic Policy",
        <<MkRule("allow-members", "allow", <<RoleIs("member")>>, 10)>>,
        "deny_overrides", "deny")

\* the policy of test_deny_overrides
DenyOverridePolicy ==
    MkPolicy("deny-override-policy", "Deny Override Policy",
        <<MkRule("allow-all", "allow", <<>>, 1),
          MkRule("deny-guests", "deny", <<RoleIs("guest")>>, 10)>>,
        "deny_overrides", "deny")

\* Policy::new: no rules, default deny
ClosedPolicy == MkPolicy("closed", "Closed", <<>>, "deny_overrides", "deny")

\* Policy::new(..).with_default_effect(Effect::Allow)
OpenPolicy == MkPolicy("open", "Open", <<>>, "deny_overrides", "allow")

\* first_applicable: an unconditional allow ahead of a rule on the owner
OwnerPolicy ==
    MkPolicy("owner-policy", "Owner Policy",
        <<MkRule("deny-owned", "deny",
              <<MkCondition("resource.owner_id", "equals", JStr("u:owner"))>>, 1),
          MkRule("allow-all", "allow", <<>>, 10)>>,
        "first_applicable", "deny")

\* allow_overrides: guests denied, anyone with a role allowed
GuestPolicy ==
    MkPolicy("guest-policy", "Guest Policy",
        <<MkRule("deny-guests", "deny", <<RoleIs("guest")>>, 0),
          MkRule("allow-roles", "allow",
              <<MkCondition("role", "exists", JNull)>>, 0)>>,
        "allow_overrides", "allow")

ExamplePolicies ==
    {BasicPolicy, DenyOverridePolicy, ClosedPolicy, OpenPolicy, OwnerPolicy,
     GuestPolicy}

\* generated policies: every algorithm and default effect over every list
\* of at most MaxRules rules r1, r2, ... whose effect, priority and
\* condition list vary
Priorities == {I32Min, 0, I32Max}

ConditionLists == {<<>>, <<RoleIs("member")>>}

RuleBodies ==
    {[effect |-> e, conditions |-> c, priority |-> p] :
        e \in Effects, c \in ConditionLists, p \in Priorities}

RuleLists ==
    UNION {{[i \in 1..n |->
                MkRule("r" \o ToString(i), f[i].effect, f[i].conditions,
                       f[i].priority)] : f \in [1..n -> RuleBodies]} :
           n \in 0..MaxRules}

GeneratedPolicies ==
    {MkPolicy("p", "Generated", rs, alg, def) :
        rs \in RuleLists, alg \in Algorithms, def \in Effects}

(***************************************************************************)
(* The Deserialize implementations serde derives for Policy, Rule and      *)
(* Condition, over a parsed document.  An error is the serde message, in    *)
(* which the position in the text is left out.                             *)
(***************************************************************************)
ConditionOperators ==
    {"equals", "not_equals", "contains", "not_contains", "starts_with",
     "ends_with", "matches", "in", "not_in", "greater_than", "less_than",
     "greater_than_or_equal", "less_than_or_equal", "exists", "not_exists"}

\* the fields of each struct in the order of their declaration
StructFields(struct) ==
    CASE struct = "Policy" ->
           <<"id", "version", "name", "description", "rules",
             "combining_algorithm", "default_effect", "metadata">>
      [] struct = "Rule" ->
           <<"id", "description", "effect", "conditions", "priority">>
      [] struct = "Condition" -> <<"field", "operator", "value">>

\* a field absent from the document: an Option is None, a field marked
\* #[serde(default)] takes its default, every other field is an error
missing_field(struct, name) ==
    CASE struct = "Policy" /\ name = "description" -> Ok(None)
      [] struct = "Policy" /\ name = "combining_algorithm" -> Ok("deny_overrides")
      [] struct = "Policy" /\ name = "default_effect" -> Ok("deny")
      [] struct = "Policy" /\ name = "metadata" -> Ok(<<>>)
      [] struct = "Rule" /\ name = "description" -> Ok(None)
      [] OTHER -> Err("missing field " \o name)

deserialize_string(v) ==
    IF v.t = "str" THEN Ok(v.s) ELSE Err("invalid type: expected a string")

deserialize_option_string(v) ==
    IF v.t = "null" THEN Ok(None)
    ELSE Try(deserialize_string(v), LAMBDA str : Ok(Some(str)))

deserialize_i32(v) ==
    IF v.t = "num" THEN Ok(v.n) ELSE Err("invalid type: expected i32")

\* a unit variant of an enum renamed to lowercase or snake_case
deserialize_variant(variants, v) ==
    IF v.t # "str" THEN Err("invalid type: expected a variant")
    ELSE IF v.s \notin variants THEN Err("unknown variant " \o v.s)
    ELSE Ok(v.s)

\* serde_json::Value of a condition or of a metadata entry
RECURSIVE deserialize_value(_)
deserialize_value(v) ==
    CASE v.t = "obj" ->
           JObj([key \in {v.m[i][1] : i \in DOMAIN v.m} |->
                    deserialize_value(unwrap(map_lookup(v.m, key)))])
      [] v.t = "arr" -> JArr([i \in DOMAIN v.a |-> deserialize_value(v.a[i])])
      [] OTHER -> v

\* HashMap<String, serde_json::Value>
deserialize_metadata(v) ==
    IF v.t = "obj" THEN Ok(deserialize_value(v).o)
    ELSE Err("invalid type: expected a map")

build_struct(struct, fields) ==
    CASE struct = "Policy" ->
           [id |-> fields["id"], version |-> fields["version"],
            name |-> fields["name"], description |-> fields["description"],
            rules |-> fields["rules"],
            combining_algorithm |-> fields["combining_algorithm"],
            default_effect |-> fields["default_effect"],
            metadata |-> fields["metadata"]]
      [] struct = "Rule" ->
           [id |-> fields["id"], description |-> fields["description"],
            effect |-> fields["effect"], conditions |-> fields["conditions"],
            priority |-> fields["priority"]]
      [] struct = "Condition" ->
           [field |-> fields["field"], operator |-> fields["operator"],
            value |-> fields["value"]]

\* after the last entry of the map: the fields not seen, in declaration order
RECURSIVE missing_fields(_, _, _)
missing_fields(struct, fields, k) ==
    IF k > Len(StructFields(struct)) THEN Ok(build_struct(struct, fields))
    ELSE IF StructFields(struct)[k] \in DOMAIN fields
         THEN missing_fields(struct, fields, k + 1)
    ELSE Try(missing_field(struct, StructFields(struct)[k]),
             LAMBDA x : missing_fields(struct,
                            (StructFields(struct)[k] :> x) @@ fields, k + 1))

RECURSIVE visit_map(_, _, _, _)
RECURSIVE deserialize_seq(_, _, _, _)

deserialize_struct(struct, v) ==
    IF v.t = "obj" THEN visit_map(struct, v.m, 1, <<>>)
    ELSE Err("invalid type: expected struct " \o struct)

\* Vec<Rule>, Vec<Condition>
deserialize_vec(struct, v) ==
    IF v.t = "arr" THEN deserialize_seq(struct, v.a, 1, <<>>)
    ELSE Err("invalid type: expected a sequence")

deserialize_field(name, v) ==
    CASE name \in {"id", "version", "name", "field"} -> deserialize_string(v)
      [] name = "description" -> deserialize_option_string(v)
      [] name = "rules" -> deserialize_vec("Rule", v)
      [] name = "conditions" -> deserialize_vec("Condition", v)
      [] name \in {"effect", "default_effect"} -> deserialize_variant(Effects, v)
      [] name = "combining_algorithm" -> deserialize_variant(Algorithms, v)
      [] name = "operator" -> deserialize_variant(ConditionOperators, v)
      [] name = "priority" -> deserialize_i32(v)
      [] name = "value" -> Ok(deserialize_value(v))
      [] name = "metadata" -> deserialize_metadata(v)

\* the entries of the document in their order: a field of the struct is
\* deserialized, an entry of another name is ignored
visit_map(struct, entries, k, fields) ==
    IF k > Len(entries) THEN missing_fields(struct, fields, 1)
    ELSE IF \A i \in DOMAIN StructFields(struct) :
                StructFields(struct)[i] # entries[k][1]
         THEN visit_map(struct, entries, k + 1, fields)
    ELSE IF entries[k][1] \in DOMAIN fields
         THEN Err("duplicate field " \o entries[k][1])
    ELSE Try(deserialize_field(entries[k][1], entries[k][2]),
             LAMBDA x : visit_map(struct, entries, k + 1,
                                  (entries[k][1] :> x) @@ fields))

deserialize_seq(struct, items, k, acc) ==
    IF k > Len(items) THEN Ok(acc)
    ELSE Try(deserialize_struct(struct, items[k]),
             LAMBDA x : deserialize_seq(struct, items, k + 1, Append(acc, x)))

(***************************************************************************)
(* policy.rs: validate, from_json                                          *)
(***************************************************************************)
SerializationError(m) == [type |-> "SerializationError", msg |-> m]
ParseError(m) == [type |-> "ParseError", msg |-> m]
ValidationError(m) == [type |-> "ValidationError", msg |-> m]

RECURSIVE validate_conditions(_, _)
validate_conditions(rule, j) ==
    IF j > Len(rule.conditions) THEN Ok(<<>>)
    ELSE IF rule.conditions[j].field = ""
         THEN Err(ValidationError("Condition field is required in rule '"
                                      \o rule.id \o "'"))
    ELSE validate_conditions(rule, j + 1)

\* a validation that looks at the first rule only
validate_rules_first_only(rules, k) ==
    IF k > Len(rules) THEN Ok(<<>>)
    ELSE IF rules[k].id = ""
         THEN Err(ValidationError("Rule ID is required"))
    ELSE validate_conditions(rules[k], 1)

RECURSIVE validate_rules(_, _)
validate_rules(rules, k) ==
    IF k > Len(rules) THEN Ok(<<>>)
    ELSE IF rules[k].id = ""
         THEN Err(ValidationError("Rule ID is required"))
    ELSE Try(validate_conditions(rules[k], 1),
             LAMBDA unit : validate_rules(rules, k + 1))

\* Policy::validate
policy_validate(policy) ==
    IF policy.id = "" THEN Err(ValidationError("Policy ID is required"))
    ELSE IF policy.name = "" THEN Err(ValidationError("Policy name is required"))
    ELSE validate_rules(policy.rules, 1)

\* policy.validate()?; Ok(policy)
validated(policy) == Try(policy_validate(policy), LAMBDA unit : Ok(policy))

\* Policy::from_json; the ? on serde_json::from_str converts the error with
\* From<serde_json::Error>
from_json(json) ==
    Match(from_str(json),
          LAMBDA parsed :
              Match(deserialize_struct("Policy", parsed),
                    LAMBDA policy : validated(policy),
                    LAMBDA message : Err(SerializationError(message))),
          LAMBDA error : Err(SerializationError(error.msg)))

(***************************************************************************)
(* str::split, str::trim                                                   *)
(***************************************************************************)
\* str::find from index i on: the index of the first occurrence of sep, 0
\* when there is none
find_from(s, sep, i) ==
    LET hits == {j \in i..(Len(s) - Len(sep) + 1) :
                    SubSeq(s, j, j + Len(sep) - 1) = sep}
    IN  IF hits = {} THEN 0 ELSE CHOOSE j \in hits : \A h \in hits : j <= h

\* the pieces of s between the occurrences of sep, found from the left
RECURSIVE str_split_from(_, _, _)
str_split_from(s, sep, start) ==
    IF find_from(s, sep, start) = 0 THEN <<SubSeq(s, start, Len(s))>>
    ELSE <<SubSeq(s, start, find_from(s, sep, start) - 1)>>
             \o str_split_from(s, sep, find_from(s, sep, start) + Len(sep))

str_split(s, sep) == str_split_from(s, sep, 1)

RECURSIVE trim_start(_)
trim_start(s) ==
    IF s # "" /\ char_at(s, 1) \in Whitespace
    THEN trim_start(SubSeq(s, 2, Len(s))) ELSE s

RECURSIVE trim_end(_)
trim_end(s) ==
    IF s # "" /\ char_at(s, Len(s)) \in Whitespace
    THEN trim_end(SubSeq(s, 1, Len(s) - 1)) ELSE s

trim(s) == trim_end(trim_start(s))

(***************************************************************************)
(* serde_yaml::from_str, for the documents the loader is given here: block *)
(* mappings and block sequences by indentation, plain scalars, and flow    *)
(* values and double-quoted strings in their JSON form.  Comments, anchors,*)
(* tags, multi-line scalars and document markers are not modelled.         *)
(***************************************************************************)
\* the number of spaces a line starts with
RECURSIVE indentation(_, _)
indentation(line, i) ==
    IF i <= Len(line) /\ char_at(line, i) = " "
    THEN indentation(line, i + 1) ELSE i - 1

\* the lines of the text that are not blank, each with its indentation
RECURSIVE yaml_lines_from(_, _)
yaml_lines_from(raw, k) ==
    IF k > Len(raw) THEN <<>>
    ELSE IF trim(raw[k]) = "" THEN yaml_lines_from(raw, k + 1)
    ELSE <<[indent |-> indentation(raw[k], 1), text |-> trim(raw[k])]>>
             \o yaml_lines_from(raw, k + 1)

yaml_lines(text) == yaml_lines_from(str_split(text, "\n"), 1)

\* the index of the colon that ends a plain key: the first colon followed
\* by a space or by the end of the line; 0 when there is none, or when the
\* line opens a quoted or a flow value
RECURSIVE key_end_from(_, _)
key_end_from(text, i) ==
    IF i > Len(text) THEN 0
    ELSE IF char_at(text, i) = ":" /\ (i = Len(text) \/ char_at(text, i + 1) = " ")
         THEN i
    ELSE key_end_from(text, i + 1)

key_end(text) ==
    IF char_at(text, 1) \in {"\"", "[", "{", "'"} THEN 0 ELSE key_end_from(text, 1)

is_dash(text) == text = "-" \/ starts_with(text, "- ")

\* a plain scalar by the core schema: null, booleans, integers, strings
plain_scalar(text) ==
    IF text \in {"", "~", "null"} THEN JNull
    ELSE IF text = "true" THEN JBool(TRUE)
    ELSE IF text = "false" THEN JBool(FALSE)
    ELSE Match(parse_number(text, 1),
               LAMBDA parsed : IF parsed.i > Len(text) THEN parsed.v ELSE JStr(text),
               LAMBDA error : JStr(text))

\* the value written on the rest of a line
parse_inline(text) ==
    IF text # "" /\ char_at(text, 1) \in {"\"", "[", "{"}
    THEN Match(from_str(text),
               LAMBDA v : Ok(v),
               LAMBDA error : Err("invalid flow value: " \o error.msg))
    ELSE Ok(plain_scalar(text))

RECURSIVE parse_block(_, _)
RECURSIVE parse_block_mapping(_, _, _, _)
RECURSIVE parse_block_sequence(_, _, _, _)

\* the line after k belongs to the node of a key or dash at this indentation
has_nested(lines, k, indent) ==
    /\ k < Len(lines)
    /\ \/ lines[k + 1].indent > indent
       \/ lines[k + 1].indent = indent /\ is_dash(lines[k + 1].text)
             /\ ~is_dash(lines[k].text)

\* the value of the entry or item whose own line holds `written`
parse_node_value(lines, k, indent, written) ==
    IF written # "" THEN Try(parse_inline(written), LAMBDA v : Ok(At(v, k + 1)))
    ELSE IF has_nested(lines, k, indent) THEN parse_block(lines, k + 1)
    ELSE Ok(At(JNull, k + 1))

parse_block_mapping(lines, k, indent, entries) ==
    IF k > Len(lines) \/ lines[k].indent < indent THEN Ok(At(JMap(entries), k))
    ELSE IF lines[k].indent > indent \/ key_end(lines[k].text) = 0
         THEN Err("did not find expected key")
    ELSE IF is_some(map_lookup(entries,
                        SubSeq(lines[k].text, 1, key_end(lines[k].text) - 1)))
         THEN Err("duplicate entry")
    ELSE Try(parse_node_value(lines, k, indent,
                 trim(SubSeq(lines[k].text, key_end(lines[k].text) + 1,
                             Len(lines[k].text)))),
             LAMBDA node :
                 parse_block_mapping(lines, node.i, indent,
                     Append(entries,
                            <<SubSeq(lines[k].text, 1, key_end(lines[k].text) - 1),
                              node.v>>)))

\* the item of a sequence that opens a mapping on the line of its dash: the
\* mapping is indented as its first key is
dash_content(line) ==
    [indent |-> line.indent + Len(line.text)
                    - Len(trim_start(SubSeq(line.text, 2, Len(line.text)))),
     text |-> trim_start(SubSeq(line.text, 2, Len(line.text)))]

parse_block_sequence(lines, k, indent, items) ==
    IF \/ k > Len(lines)
       \/ lines[k].indent < indent
       \/ lines[k].indent = indent /\ ~is_dash(lines[k].text)
    THEN Ok(At(JArr(items), k))
    ELSE IF lines[k].indent > indent THEN Err("did not find expected '-' indicator")
    ELSE Try(IF lines[k].text = "-"
             THEN parse_node_value(lines, k, indent, "")
             ELSE parse_block([lines EXCEPT ![k] = dash_content(lines[k])], k),
             LAMBDA node :
                 parse_block_sequence(lines, node.i, indent, Append(items, node.v)))

\* the node that starts on line k
parse_block(lines, k) ==
    IF is_dash(lines[k].text)
    THEN parse_block_sequence(lines, k, lines[k].indent, <<>>)
    ELSE IF key_end(lines[k].text) > 0
         THEN parse_block_mapping(lines, k, lines[k].indent, <<>>)
    ELSE Try(parse_inline(lines[k].text), LAMBDA v : Ok(At(v, k + 1)))

\* one document and nothing after it
yaml_document(lines) ==
    IF lines = <<>> THEN Ok(JNull)
    ELSE Try(parse_block(lines, 1),
             LAMBDA node :
                 IF node.i <= Len(lines)
                 THEN Err("did not find expected end of document")
                 ELSE Ok(node.v))

yaml_from_str(text) == yaml_document(yaml_lines(text))

(***************************************************************************)
(* policy.rs: from_yaml; parser.rs: parse_policies_yaml                    *)
(***************************************************************************)
\* Policy::from_yaml; the ? on serde_yaml::from_str converts the error with
\* From<serde_yaml::Error>
from_yaml(yaml) ==
    Match(yaml_from_str(yaml),
          LAMBDA parsed :
              Match(deserialize_struct("Policy", parsed),
                    LAMBDA policy : validated(policy),
                    LAMBDA message : Err(ParseError(message))),
          LAMBDA message : Err(ParseError(message)))

\* the loop of parse_policies_yaml over the pieces
RECURSIVE parse_documents(_, _, _)
parse_documents(docs, k, parsed) ==
    IF k > Len(docs) THEN Ok(parsed)
    ELSE IF trim(docs[k]) = "" THEN parse_documents(docs, k + 1, parsed)
    ELSE Try(from_yaml(trim(docs[k])),
             LAMBDA policy : parse_documents(docs, k + 1, Append(parsed, policy)))

\* for doc in content.split("---")
parse_policies_yaml(content) == parse_documents(str_split(content, "---"), 1, <<>>)

(***************************************************************************)
(* The evaluator as a state machine                                        *)
(***************************************************************************)
\* no value has been handed to canonicalize
CanonIdle == canon_value = None /\ canon_output = None

\* no link has been made and none verified
ChainIdle == chain = <<>> /\ verified = None

\* no text has been handed to a loading function
LoaderIdle == document = None /\ loaded = None /\ added = <<>>

\* only the evaluator is in use
EvaluatorOnly == CanonIdle /\ ChainIdle /\ LoaderIdle

\* the evaluator is not in use
EvaluatorNew ==
    /\ policies = <<>>
    /\ context = None
    /\ decisions = <<>>
    /\ result = None
    /\ calls = <<>>

\* PolicyEvaluator::new, no evaluate call made yet
Init ==
    /\ policies = <<>>
    /\ context = None
    /\ decisions = <<>>
    /\ result = None
    /\ calls = <<>>
    /\ EvaluatorOnly

\* an evaluator that inserts the policy at the front of its list
add_policy_front(policy) ==
    /\ Len(policies) < MaxPolicies
    /\ policies' = <<policy>> \o policies
    /\ context' = None
    /\ decisions' = <<>>
    /\ result' = None

\* PolicyEvaluator::add_policy; it returns nothing, so the record of the last
\* evaluate call is cleared
add_policy(policy) ==
    /\ Len(policies) < MaxPolicies
    /\ policies' = Append(policies, policy)
    /\ context' = None
    /\ decisions' = <<>>
    /\ result' = None

\* PolicyEvaluator::evaluate: &self, the policies are left as they are
evaluate(ctx, elapsed) ==
    /\ context' = Some(ctx)
    /\ decisions' = evaluate_call(policies, ctx, elapsed).decisions
    /\ result' = Some(evaluate_call(policies, ctx, elapsed).result)
    /\ UNCHANGED policies

AddPolicy ==
    /\ \E policy \in ExamplePolicies : add_policy(policy)
    /\ UNCHANGED <<calls, canonVars, chainVars, loaderVars>>

Evaluate ==
    /\ \E ctx \in Contexts, elapsed \in 0..MaxElapsed : evaluate(ctx, elapsed)
    /\ UNCHANGED <<calls, canonVars, chainVars, loaderVars>>

Next == AddPolicy \/ Evaluate

Spec == Init /\ [][Next]_vars

(***************************************************************************)
(* evaluate_policy as a function of one policy and one context: the        *)
(* evaluator holds one generated policy and evaluate is applied to it      *)
(***************************************************************************)
InitPolicy ==
    /\ policies \in {<<p>> : p \in GeneratedPolicies}
    /\ context = None
    /\ decisions = <<>>
    /\ result = None
    /\ calls = <<>>
    /\ EvaluatorOnly

EvaluatePolicy ==
    /\ \E ctx \in PolicyContexts : evaluate(ctx, 0)
    /\ UNCHANGED <<calls, canonVars, chainVars, loaderVars>>

NextPolicy == EvaluatePolicy

SpecPolicy == InitPolicy /\ [][NextPolicy]_vars

(***************************************************************************)
(* evaluate_rule and evaluate_condition as functions of one rule and one   *)
(* context: the evaluator holds one policy with one rule whose conditions  *)
(* are drawn from a pool that covers every operator family, present and    *)
(* absent fields, paths of one to three segments and an invalid regex      *)
(***************************************************************************)
MaxConditions == 2  \* conditions of the rule

ConditionPool ==
    {RoleIs("member"),
     MkCondition("role", "not_equals", JStr("guest")),
     MkCondition("role", "exists", JNull),
     MkCondition("role", "in", JStrArr(<<"member", "admin">>)),
     MkCondition("role", "matches", JStr("(")),
     MkCondition("resource.owner_id", "not_exists", JNull),
     MkCondition("resource.owner_id", "starts_with", JStr("u:")),
     MkCondition("identity.user_id", "greater_than", JNum(1)),
     MkCondition("subject.id", "equals", JStr("u:test")),
     MkCondition("subject.id", "not_exists", JNull),
     MkCondition("attributes.level", "greater_than_or_equal", JNum(2)),
     MkCondition("identity.user_id.x", "exists", JNull),
     MkCondition("role.x.y", "exists", JNull),
     MkCondition("attributes.level.sub", "exists", JNull),
     MkCondition("role", "not_in", JStr("member")),
     MkCondition("attributes.tags", "not_contains", JStr("b")),
     MkCondition("attributes.level", "not_contains", JStr("3"))}

RuleConditionLists ==
    UNION {[1..n -> ConditionPool] : n \in 0..MaxConditions}

RulePolicies ==
    {MkPolicy("p", "Rule", <<MkRule("r", "allow", cs, 0)>>,
              "first_applicable", "deny") : cs \in RuleConditionLists}

\* the valid contexts, and one with a role, an owner and an attribute
RuleContexts ==
    ValidContexts \cup
    {[MkContext("u:test", "t:example.com", "r:general", Some("member"),
                Some("u:owner")) EXCEPT !.attributes = [level |-> JNum(3), tags |-> JStrArr(<<"a", "b">>)]]}

InitRule ==
    /\ policies \in {<<p>> : p \in RulePolicies}
    /\ context = None
    /\ decisions = <<>>
    /\ result = None
    /\ calls = <<>>
    /\ EvaluatorOnly

EvaluateRule ==
    /\ \E ctx \in RuleContexts : evaluate(ctx, 0)
    /\ UNCHANGED <<calls, canonVars, chainVars, loaderVars>>

NextRule == EvaluateRule

SpecRule == InitRule /\ [][NextRule]_vars

(***************************************************************************)
(* Repeated evaluate calls on one evaluator: the calls made since the last *)
(* add_policy are logged with their outcome, the evaluation time left out  *)
(***************************************************************************)
MaxCalls == 3       \* evaluate calls logged between two add_policy calls

\* what an evaluate call returned, without the evaluation time
Outcome(r) ==
    IF r.ok THEN Ok([r.v EXCEPT !.evaluation_time_us = None]) ELSE r

\* a member, a guest and a context without user_id
PureContexts ==
    {MkContext("u:test", "t:example.com", "r:general", Some("member"), None),
     MkContext("u:test", "t:example.com", "r:general", Some("guest"), None),
     MkContext("", "t:example.com", "r:general", Some("member"), None)}

AddPolicyPure ==
    /\ \E policy \in ExamplePolicies : add_policy(policy)
    /\ calls' = <<>>
    /\ UNCHANGED <<canonVars, chainVars, loaderVars>>

EvaluatePure ==
    /\ Len(calls) < MaxCalls
    /\ \E ctx \in PureContexts, elapsed \in 0..MaxElapsed :
          /\ evaluate(ctx, elapsed)
          /\ calls' = Append(calls,
                 [context |-> ctx,
                  outcome |-> Outcome(evaluate_call(policies, ctx, elapsed).result)])
    /\ UNCHANGED <<canonVars, chainVars, loaderVars>>

NextPure == AddPolicyPure \/ EvaluatePure

SpecPure == Init /\ [][NextPure]_vars

(***************************************************************************)
(* canonicalize as a function of one JSON value: a value is drawn, handed  *)
(* to canonicalize, and the text returned may be handed to                 *)
(* canonicalize_json any number of times                                   *)
(***************************************************************************)
MaxStringLen == 2   \* characters of a generated string value
MaxEntries == 2     \* entries of a generated object, items of a generated array

\* a plain character, CR, LF, TAB, another control character, the quote and
\* the backslash
CanonChars == {"a", "\r", "\n", "\t", "\f", "\"", "\\"}

RECURSIVE StringsOver(_, _)
StringsOver(chars, n) ==
    IF n = 0 THEN {""}
    ELSE StringsOver(chars, n - 1)
         \cup {s \o c : s \in StringsOver(chars, n - 1), c \in chars}

CanonStrings == StringsOver(CanonChars, MaxStringLen)

SmallAtoms == {JNull, JBool(TRUE), JNum(-20), JStr("a\r")}

\* keys whose byte order differs from their order without case, a key that
\* is a prefix of another, a key with a CR and the same key with a LF
CanonKeys == {"a", "B", "a\n", "a\r"}

\* the entry lists of at most n entries with distinct keys
EntryLists(keys, vals, n) ==
    {e \in UNION {[1..k -> keys \X vals] : k \in 0..n} :
        \A i, j \in DOMAIN e : i # j => e[i][1] # e[j][1]}

FlatObjects == {JMap(e) : e \in EntryLists(CanonKeys, SmallAtoms, MaxEntries)}

FlatArrays ==
    {JArr(a) : a \in UNION {[1..k -> SmallAtoms] : k \in 0..MaxEntries}}

\* the inner values of test_canonicalize_nested, and their entries reordered
InnerValues ==
    {JNum(1),
     JMap(<< <<"b", JNum(2)>>, <<"a", JNum(1)>> >>),
     JMap(<< <<"a", JNum(1)>>, <<"b", JNum(2)>> >>),
     JArr(<<JNum(3), JNum(1), JNum(2)>>),
     JArr(<<JNum(1), JNum(2), JNum(3)>>)}

NestedObjects == {JMap(e) : e \in EntryLists({"z", "a"}, InnerValues, MaxEntries)}

JsonValues ==
    {JStr(str) : str \in CanonStrings} \cup SmallAtoms \cup FlatObjects
        \cup FlatArrays \cup NestedObjects

InitCanon ==
    /\ EvaluatorNew
    /\ ChainIdle
    /\ LoaderIdle
    /\ canon_value \in {Some(v) : v \in JsonValues}
    /\ canon_output = None

\* canonicalize(&value)
Canonicalize ==
    /\ is_some(canon_value)
    /\ canon_output = None
    /\ canon_output' = Some(canonicalize(unwrap(canon_value)))
    /\ UNCHANGED <<canon_value, evaluatorVars, chainVars, loaderVars>>

\* canonicalize_json on the text canonicalize returned; the value is the
\* one serde_json::from_str parsed, if any
CanonicalizeJson ==
    /\ is_some(canon_output)
    /\ unwrap(canon_output).ok
    /\ canon_value' = (IF from_str(unwrap(canon_output).v).ok
                       THEN Some(from_str(unwrap(canon_output).v).v) ELSE None)
    /\ canon_output' = Some(canonicalize_json(unwrap(canon_output).v))
    /\ UNCHANGED <<evaluatorVars, chainVars, loaderVars>>

NextCanon == Canonicalize \/ CanonicalizeJson

SpecCanon == InitCanon /\ [][NextCanon]_vars

(***************************************************************************)
(* The hash chain: links are made one after the other from GENESIS_HASH,   *)
(* and verify_chain_link is called on hashes and content identifiers of    *)
(* the chain with one expected hash or another                             *)
(***************************************************************************)
MaxChain == 2   \* links of the chain

CidPool == {compute_cid("a"), compute_cid("test"), "c:test"}

\* the head hash of the chain
ChainHead(links) ==
    IF links = <<>> THEN GENESIS_HASH ELSE links[Len(links)].head_hash

KnownHashes == {GENESIS_HASH} \cup {chain[i].head_hash : i \in DOMAIN chain}

\* the head hash of the link and strings near it
ExpectedHashes(prev_hash, cid) ==
    KnownHashes
        \cup {compute_head_hash(prev_hash, cid),
              compute_head_hash(GENESIS_HASH, cid),
              compute_head_hash(prev_hash, cid) \o "0",
              sha256_str(prev_hash \o ":" \o cid),
              prev_hash, cid, ""}

InitChain ==
    /\ EvaluatorNew
    /\ CanonIdle
    /\ LoaderIdle
    /\ chain = <<>>
    /\ verified = None

\* compute_head_hash(head, cid) becomes the head
Link ==
    /\ Len(chain) < MaxChain
    /\ \E cid \in CidPool :
          chain' = Append(chain,
                      [prev_hash |-> ChainHead(chain), cid |-> cid,
                       head_hash |-> compute_head_hash(ChainHead(chain), cid)])
    /\ verified' = None
    /\ UNCHANGED <<evaluatorVars, canonVars, loaderVars>>

\* one verification is made of a chain before it grows again
VerifyChainLink ==
    /\ verified = None
    /\ \E prev_hash \in KnownHashes, cid \in CidPool :
          \E expected_hash \in ExpectedHashes(prev_hash, cid) :
             verified' = Some([prev_hash |-> prev_hash, cid |-> cid,
                               expected_hash |-> expected_hash,
                               outcome |-> verify_chain_link(prev_hash, cid,
                                                             expected_hash)])
    /\ UNCHANGED <<chain, evaluatorVars, canonVars, loaderVars>>

\* hashes and content identifiers that hold the separator: pairs of them
\* join to the same string
ColonHashes == {"h:a", "h:a:b"}
ColonCids == {"b:c", "c"}

\* verify_chain_link on such a pair, with the head hash of such a pair
VerifyColonLink ==
    /\ verified = None
    /\ \E prev_hash \in ColonHashes, cid \in ColonCids :
          \E p \in ColonHashes, c \in ColonCids :
             verified' = Some([prev_hash |-> prev_hash, cid |-> cid,
                               expected_hash |-> compute_head_hash(p, c),
                               outcome |-> verify_chain_link(prev_hash, cid,
                                               compute_head_hash(p, c))])
    /\ UNCHANGED <<chain, evaluatorVars, canonVars, loaderVars>>

NextChain == Link \/ VerifyChainLink \/ VerifyColonLink

SpecChain == InitChain /\ [][NextChain]_vars

(***************************************************************************)
(* The loader: a policy document is handed to Policy::from_yaml,           *)
(* Policy::from_json or parse_policies_yaml, or loaded into the evaluator  *)
(* with load_policy_yaml or load_policy_json                               *)
(***************************************************************************)
\* the rule of test_wasm_engine, which has no priority, and the same rule
\* with one
RulePriorities == {None, Some(0), Some(10)}

YamlRule(priority) ==
    "  - id: allow-all\n    effect: allow\n    conditions: []\n"
        \o (IF priority = None THEN ""
            ELSE "    priority: " \o ToString(unwrap(priority)) \o "\n")

\* the document of test_parse_yaml, with the rules given
YamlPolicy(id, name, rules_text) ==
    "\nid: " \o id \o "\nversion: \"1.0.0\"\nname: " \o name \o "\nrules:"
        \o (IF rules_text = "" THEN " []\n" ELSE "\n" \o rules_text)

JsonRule(priority) ==
    "{\"id\": \"allow-all\", \"effect\": \"allow\", \"conditions\": []"
        \o (IF priority = None THEN ""
            ELSE ", \"priority\": " \o ToString(unwrap(priority)))
        \o "}"

\* the document of test_parse_json, with the rules given
JsonPolicy(id, name, rules_text) ==
    "{\"id\": \"" \o id \o "\", \"version\": \"1.0.0\", \"name\": \"" \o name
        \o "\", \"rules\": [" \o rules_text \o "]}"

YamlDocuments ==
    {YamlPolicy("test", "Test", YamlRule(priority)) : priority \in RulePriorities}
        \cup {YamlPolicy("test", "Test", "")}

JsonDocuments ==
    {JsonPolicy("test", "Test", JsonRule(priority)) : priority \in RulePriorities}
        \cup {JsonPolicy("test", "Test", "")}

\* the names of the first policy of a stream: that of test_parse_multiple,
\* and a name with three dashes in it
StreamNames == {"Policy 1", "a---b"}

\* two documents with a line of three dashes between them, as in
\* test_parse_multiple
YamlStream(first_name) ==
    YamlPolicy("policy1", first_name, "") \o "---"
        \o YamlPolicy("policy2", "Policy 2", "")

YamlStreams == {YamlStream(first_name) : first_name \in StreamNames}

\* a rule with one condition
YamlConditionRule(rule_id, field) ==
    "  - id: " \o rule_id \o "\n    effect: deny\n    conditions:\n"
        \o "      - field: " \o field \o "\n        operator: exists\n"
        \o "        value: null\n    priority: 1\n"

JsonConditionRule(rule_id, field) ==
    "{\"id\": \"" \o rule_id \o "\", \"effect\": \"deny\", \"conditions\": "
        \o "[{\"field\": \"" \o field \o "\", \"operator\": \"exists\", "
        \o "\"value\": null}], \"priority\": 1}"

\* the empty string as YAML writes it
EmptyYaml == "\"\""

\* well-formed documents with an empty id, name, rule id or condition field,
\* in the first rule or in the second, and one with none of them empty
ConditionYamlDocuments ==
    {YamlPolicy(EmptyYaml, "Test", ""),
     YamlPolicy("test", EmptyYaml, ""),
     YamlPolicy(EmptyYaml, EmptyYaml, YamlConditionRule(EmptyYaml, "role")),
     YamlPolicy("test", "Test", YamlConditionRule(EmptyYaml, "role")),
     YamlPolicy("test", "Test", YamlConditionRule("r1", EmptyYaml)),
     YamlPolicy("test", "Test",
                YamlRule(Some(0)) \o YamlConditionRule("r1", EmptyYaml)),
     YamlPolicy("test", "Test", YamlConditionRule("r1", "role"))}

ConditionJsonDocuments ==
    {JsonPolicy("", "Test", ""),
     JsonPolicy("test", "", ""),
     JsonPolicy("test", "Test", JsonConditionRule("", "role")),
     JsonPolicy("test", "Test", JsonConditionRule("r1", "")),
     JsonPolicy("test", "Test",
                JsonRule(Some(0)) \o ", " \o JsonConditionRule("", "role"))}

Documents ==
    YamlDocuments \cup JsonDocuments \cup YamlStreams
        \cup ConditionYamlDocuments \cup ConditionJsonDocuments

Loaded(function, load_result) == Some([function |-> function, result |-> load_result])

InitLoader ==
    /\ EvaluatorNew
    /\ CanonIdle
    /\ ChainIdle
    /\ LoaderIdle

\* the loading functions tabulated over the documents
FromYamlOf == [text \in Documents |-> from_yaml(text)]
FromJsonOf == [text \in Documents |-> from_json(text)]
ParsePoliciesYamlOf == [text \in Documents |-> parse_policies_yaml(text)]

\* Policy::from_yaml
FromYaml ==
    /\ policies = <<>>
    /\ \E yaml \in Documents :
          /\ document' = Some(yaml)
          /\ loaded' = Loaded("from_yaml", FromYamlOf[yaml])
    /\ UNCHANGED <<evaluatorVars, canonVars, chainVars, added>>

\* Policy::from_json
FromJson ==
    /\ policies = <<>>
    /\ \E json \in Documents :
          /\ document' = Some(json)
          /\ loaded' = Loaded("from_json", FromJsonOf[json])
    /\ UNCHANGED <<evaluatorVars, canonVars, chainVars, added>>

\* parse_policies_yaml
ParsePoliciesYaml ==
    /\ policies = <<>>
    /\ \E text \in Documents :
          /\ document' = Some(text)
          /\ loaded' = Loaded("parse_policies_yaml", ParsePoliciesYamlOf[text])
    /\ UNCHANGED <<evaluatorVars, canonVars, chainVars, added>>

\* the documents loaded into an evaluator: with and without a priority,
\* with an empty id, name or condition field, in YAML and in JSON
LoadDocuments ==
    {YamlPolicy("test", "Test", YamlRule(None)),
     YamlPolicy("test", "Test", YamlRule(Some(0))),
     YamlPolicy(EmptyYaml, "Test", ""),
     YamlPolicy("test", "Test",
                YamlRule(Some(0)) \o YamlConditionRule("r1", EmptyYaml)),
     JsonPolicy("test", "Test", JsonRule(Some(10))),
     JsonPolicy("test", "", "")}

\* the call log after a call that was given this policy, or this error
Succeeded(given) == IF given.ok THEN Append(added, given.v) ELSE added

\* the policy is pushed when the text gave one, and the error is returned
\* with the evaluator as it was when it did not
load_policy(function, text, parsed) ==
    /\ Len(policies) < MaxPolicies
    /\ document' = Some(text)
    /\ IF parsed.ok
       THEN /\ add_policy(parsed.v)
            /\ loaded' = Loaded(function, Ok(<<>>))
       ELSE /\ loaded' = Loaded(function, parsed)
            /\ UNCHANGED <<policies, context, decisions, result>>

\* PolicyEvaluator::load_policy_yaml, WasmPolicyEngine::load_policy_yaml
LoadPolicyYaml ==
    /\ \E yaml \in LoadDocuments :
          /\ load_policy("load_policy_yaml", yaml, FromYamlOf[yaml])
          /\ added' = Succeeded(FromYamlOf[yaml])
    /\ UNCHANGED <<calls, canonVars, chainVars>>

\* WasmPolicyEngine::load_policy_json
LoadPolicyJson ==
    /\ \E json \in LoadDocuments :
          /\ load_policy("load_policy_json", json, FromJsonOf[json])
          /\ added' = Succeeded(FromJsonOf[json])
    /\ UNCHANGED <<calls, canonVars, chainVars>>

\* Policy::new
Policy_new(id, name) ==
    [id |-> id, version |-> "1.0.0", name |-> name, description |-> None,
     rules |-> <<>>, combining_algorithm |-> "deny_overrides",
     default_effect |-> "deny", metadata |-> <<>>]

NewPolicies == {Policy_new("new", "New"), Policy_new("", "New")}

\* PolicyEvaluator::add_policy with a policy built in code
AddNewPolicy ==
    /\ \E policy \in NewPolicies :
          /\ add_policy(policy)
          /\ added' = Succeeded(Ok(policy))
    /\ document' = None
    /\ loaded' = Loaded("add_policy", Ok(<<>>))
    /\ UNCHANGED <<calls, canonVars, chainVars>>

NextLoader ==
    \/ FromYaml \/ FromJson \/ ParsePoliciesYaml
    \/ LoadPolicyYaml \/ LoadPolicyJson \/ AddNewPolicy

SpecLoader == InitLoader /\ [][NextLoader]_vars

(***************************************************************************)
(* Vocabulary of the properties                                            *)
(***************************************************************************)
Evaluated == is_some(result)
Ctx == unwrap(context)
Res == unwrap(result)

ValidContext(ctx) ==
    /\ ctx.identity.user_id # ""
    /\ ctx.tenant.tenant_id # ""
    /\ ctx.resource.resource_id # ""

\* the rule matches: every condition is true
Matches(rule, ctx) == evaluate_rule(rule, ctx) = Ok(TRUE)

\* no condition reached in any rule of the policy raises an error
NoRuleErrors(policy, ctx) ==
    \A k \in DOMAIN policy.rules : evaluate_rule(policy.rules[k], ctx).ok

\* a decision without its evaluation time
WithoutTime(d) == [d EXCEPT !.evaluation_time_us = None]

\* the errors raised by the conditions an evaluation reaches: condition j
\* of a rule is reached when the conditions before it are all true
ReachedErrors(ps, ctx) ==
    {evaluate_condition(ps[i].rules[k].conditions[j], ctx).e :
        <<i, k, j>> \in
          {t \in (DOMAIN ps) \X (1..MaxRules + 1) \X (1..2) :
              /\ t[2] \in DOMAIN ps[t[1]].rules
              /\ t[3] \in DOMAIN ps[t[1]].rules[t[2]].conditions
              /\ \A h \in 1..(t[3] - 1) :
                    evaluate_condition(ps[t[1]].rules[t[2]].conditions[h], ctx)
                        = Ok(TRUE)
              /\ ~evaluate_condition(ps[t[1]].rules[t[2]].conditions[t[3]],
                                     ctx).ok}}

(***************************************************************************)
(* C1  Cross-policy deny dominance.  After evaluate on a valid context     *)
(* with at least one policy and no condition error, a decision is          *)
(* returned; it is deny iff some per-policy decision is deny and allow iff *)
(* every per-policy decision is allow.                                     *)
(***************************************************************************)
C1_DenyDominance ==
    ( /\ Evaluated
      /\ policies # <<>>
      /\ ValidContext(Ctx)
      /\ \A i \in DOMAIN policies : NoRuleErrors(policies[i], Ctx) )
    => /\ Res.ok
       /\ Len(decisions) = Len(policies)
       /\ \A i \in DOMAIN policies :
             decisions[i] = evaluate_policy(policies[i], Ctx).v
       /\ is_denied(Res.v) <=> \E i \in DOMAIN decisions : is_denied(decisions[i])
       /\ is_allowed(Res.v) <=> \A i \in DOMAIN decisions : is_allowed(decisions[i])

\* a policy that allows ahead of one that denies, and the decision is deny
C1_Witness ==
    /\ Evaluated /\ Res.ok
    /\ Len(decisions) = 2
    /\ is_allowed(decisions[1]) /\ is_denied(decisions[2])
    /\ is_denied(Res.v)

(***************************************************************************)
(* C2  A context with an empty identity.user_id, tenant.tenant_id or       *)
(* resource.resource_id makes evaluate return MissingField naming an empty *)
(* field, whatever policies are loaded, none included.                     *)
(***************************************************************************)
C2_MissingFieldFirst ==
    (Evaluated /\ ~ValidContext(Ctx))
    => /\ ~Res.ok
       /\ Res.e.type = "MissingField"
       /\ \/ Res.e.msg = "identity.user_id" /\ Ctx.identity.user_id = ""
          \/ Res.e.msg = "tenant.tenant_id" /\ Ctx.tenant.tenant_id = ""
          \/ Res.e.msg = "resource.resource_id" /\ Ctx.resource.resource_id = ""

\* an evaluator without policies handed a context without user_id
C2_Witness ==
    /\ Evaluated
    /\ policies = <<>>
    /\ Ctx.identity.user_id = ""
    /\ ~Res.ok

(***************************************************************************)
(* C3  evaluate on a valid context with no policy loaded returns the       *)
(* default deny: deny, is_default, reason "No matching rules - default     *)
(* deny", neither rule_id nor policy_id.                                   *)
(***************************************************************************)
C3_NoPoliciesDefaultDeny ==
    (Evaluated /\ policies = <<>> /\ ValidContext(Ctx))
    => /\ Res.ok
       /\ Res.v.decision = "deny"
       /\ Res.v.is_default = TRUE
       /\ Res.v.reason = "No matching rules - default deny"
       /\ Res.v.rule_id = None
       /\ Res.v.policy_id = None

\* an evaluator without policies handed a valid context
C3_Witness ==
    /\ Evaluated
    /\ policies = <<>>
    /\ ValidContext(Ctx)
    /\ Res.ok /\ Res.v.is_default

(***************************************************************************)
(* C4  If a condition reached while evaluating a valid context raises a    *)
(* ConditionError, evaluate returns one of the errors raised and no        *)
(* decision.                                                               *)
(***************************************************************************)
C4_ConditionErrorPropagates ==
    (Evaluated /\ ValidContext(Ctx) /\ ReachedErrors(policies, Ctx) # {})
    => /\ ~Res.ok
       /\ Res.e.type = "ConditionError"
       /\ Res.e \in ReachedErrors(policies, Ctx)

\* a policy that denies ahead of one whose rule reads the absent role
C4_Witness ==
    /\ Evaluated /\ ValidContext(Ctx)
    /\ Len(policies) = 2
    /\ evaluate_policy(policies[1], Ctx).ok
    /\ is_denied(evaluate_policy(policies[1], Ctx).v)
    /\ ~evaluate_policy(policies[2], Ctx).ok
    /\ ~Res.ok /\ Res.e.type = "ConditionError"

(***************************************************************************)
(* Vocabulary of the per-policy properties                                 *)
(***************************************************************************)
\* the positions, in the policy's rule list, of the rules that match
MatchingRules(policy, ctx) ==
    {k \in DOMAIN policy.rules : Matches(policy.rules[k], ctx)}

\* rule k comes before rule j in priority order, ties in list order
Before(policy, k, j) ==
    \/ policy.rules[k].priority > policy.rules[j].priority
    \/ policy.rules[k].priority = policy.rules[j].priority /\ k < j

\* the first, in that order, of a non-empty set of rule positions
FirstOf(policy, S) == CHOOSE k \in S : \A j \in S \ {k} : Before(policy, k, j)

\* the last evaluate call reached policy i: the context was valid and no
\* policy before it raised an error
Reached(i) ==
    /\ Evaluated
    /\ ValidContext(Ctx)
    /\ \A h \in 1..(i - 1) : NoRuleErrors(policies[h], Ctx)

\* ... and policy i raised no error either, so that it was decided
Decided(i) == Reached(i) /\ NoRuleErrors(policies[i], Ctx)

Opposite(effect) == IF effect = "allow" THEN "deny" ELSE "allow"

(***************************************************************************)
(* C5  Under first_applicable, when some rule matches and no condition     *)
(* errors, the decision is the effect of a matching rule of the highest    *)
(* priority among the matching rules, carries that rule's id and the       *)
(* reason "Rule '<id>' matched"; no matching rule of lower priority than   *)
(* another matching rule is the one named.                                 *)
(***************************************************************************)
C5_FirstApplicablePriority ==
    \A i \in DOMAIN policies :
        LET p == policies[i]
            M == MatchingRules(p, Ctx)
        IN  (Decided(i) /\ p.combining_algorithm = "first_applicable" /\ M # {})
            => /\ i \in DOMAIN decisions
               /\ \E k \in M :
                     /\ \A j \in M : p.rules[j].priority <= p.rules[k].priority
                     /\ decisions[i].decision = p.rules[k].effect
                     /\ decisions[i].rule_id = Some(p.rules[k].id)
                     /\ decisions[i].reason = "Rule '" \o p.rules[k].id \o "' matched"
               /\ \A k \in M :
                     decisions[i].rule_id = Some(p.rules[k].id)
                     => \A j \in M : p.rules[j].priority <= p.rules[k].priority

\* a matching rule of priority i32::MIN listed ahead of a matching rule of
\* priority i32::MAX with the other effect, and the second one decides
C5_Witness ==
    /\ Decided(1)
    /\ policies[1].combining_algorithm = "first_applicable"
    /\ Len(policies[1].rules) = 2
    /\ MatchingRules(policies[1], Ctx) = {1, 2}
    /\ policies[1].rules[1].priority = I32Min
    /\ policies[1].rules[2].priority = I32Max
    /\ policies[1].rules[1].effect # policies[1].rules[2].effect
    /\ decisions[1].rule_id = Some(policies[1].rules[2].id)
    /\ decisions[1].decision = policies[1].rules[2].effect

(***************************************************************************)
(* C6  sorted_rules returns the policy's rules in non-increasing priority  *)
(* order, rules of equal priority in the order of the rule list.           *)
(* Original consequence: the rule a decision names is listed before every  *)
(* other matching rule of its priority.  Amended consequence: it is listed *)
(* before every other matching rule of its priority and its effect.        *)
(***************************************************************************)
\* the position of rule k in the stable descending sort
Rank(policy, k) ==
    1 + Cardinality({j \in DOMAIN policy.rules : Before(policy, j, k)})

StableSorted(policy) ==
    LET out == sorted_rules(policy) IN
    /\ Len(out) = Len(policy.rules)
    /\ \A k \in DOMAIN policy.rules : out[Rank(policy, k)] = policy.rules[k]
    /\ \A a, b \in DOMAIN out : a < b => out[a].priority >= out[b].priority

C6_SortedRulesStable ==
    /\ \A i \in DOMAIN policies : StableSorted(policies[i])
    /\ \A i \in DOMAIN policies :
          LET p == policies[i] IN
          Decided(i) =>
            \A k, j \in MatchingRules(p, Ctx) :
                ( /\ decisions[i].rule_id = Some(p.rules[k].id)
                  /\ p.rules[j].priority = p.rules[k].priority
                  /\ p.rules[j].effect = p.rules[k].effect )
                => k <= j

C6_Original ==
    /\ \A i \in DOMAIN policies : StableSorted(policies[i])
    /\ \A i \in DOMAIN policies :
          LET p == policies[i] IN
          Decided(i) =>
            \A k, j \in MatchingRules(p, Ctx) :
                ( /\ decisions[i].rule_id = Some(p.rules[k].id)
                  /\ p.rules[j].priority = p.rules[k].priority )
                => k <= j

\* two matching rules of the same priority and effect: the sort leaves them
\* in list order and the one listed first is named by the decision
C6_Witness ==
    /\ Decided(1)
    /\ Len(policies[1].rules) = 2
    /\ MatchingRules(policies[1], Ctx) = {1, 2}
    /\ policies[1].rules[1].priority = policies[1].rules[2].priority
    /\ policies[1].rules[1].effect = policies[1].rules[2].effect
    /\ sorted_rules(policies[1]) = policies[1].rules
    /\ decisions[1].rule_id = Some(policies[1].rules[1].id)

(***************************************************************************)
(* C7  When no rule matches and no condition errors, the decision is the   *)
(* policy's default_effect, is_default, without rule_id, with the policy's *)
(* id and the reason "No matching rules - default <effect>", under every   *)
(* combining algorithm.                                                    *)
(***************************************************************************)
C7_DefaultEffect ==
    \A i \in DOMAIN policies :
        LET p == policies[i] IN
        (Decided(i) /\ MatchingRules(p, Ctx) = {})
        => /\ i \in DOMAIN decisions
           /\ decisions[i].decision = p.default_effect
           /\ decisions[i].is_default = TRUE
           /\ decisions[i].rule_id = None
           /\ decisions[i].policy_id = Some(p.id)
           /\ decisions[i].reason =
                 IF p.default_effect = "allow"
                 THEN "No matching rules - default allow"
                 ELSE "No matching rules - default deny"

\* a policy with rules, none of which matches, and default_effect allow
C7_Witness ==
    /\ Decided(1)
    /\ policies[1].rules # <<>>
    /\ MatchingRules(policies[1], Ctx) = {}
    /\ policies[1].default_effect = "allow"
    /\ policies[1].combining_algorithm = "unanimous_deny"
    /\ decisions[1].is_default
    /\ decisions[1].decision = "allow"

(***************************************************************************)
(* C8  Under deny_overrides with a matched rule: if a matched rule denies, *)
(* the decision is deny and names the first matched deny rule in sorted    *)
(* order; otherwise it is allow, names the first matched rule and has the  *)
(* reason "All matching rules allow".  is_default is false and policy_id   *)
(* is the policy's id.                                                     *)
(***************************************************************************)
C8_DenyOverrides ==
    \A i \in DOMAIN policies :
        LET p == policies[i]
            M == MatchingRules(p, Ctx)
            D == {k \in M : p.rules[k].effect = "deny"}
        IN  (Decided(i) /\ p.combining_algorithm = "deny_overrides" /\ M # {})
            => /\ i \in DOMAIN decisions
               /\ IF D # {}
                  THEN /\ decisions[i].decision = "deny"
                       /\ decisions[i].rule_id = Some(p.rules[FirstOf(p, D)].id)
                  ELSE /\ decisions[i].decision = "allow"
                       /\ decisions[i].rule_id = Some(p.rules[FirstOf(p, M)].id)
                       /\ decisions[i].reason = "All matching rules allow"
               /\ decisions[i].is_default = FALSE
               /\ decisions[i].policy_id = Some(p.id)

\* a matching allow rule sorted ahead of a matching deny rule: the deny
\* rule decides
C8_Witness ==
    /\ Decided(1)
    /\ policies[1].combining_algorithm = "deny_overrides"
    /\ Len(policies[1].rules) = 2
    /\ MatchingRules(policies[1], Ctx) = {1, 2}
    /\ policies[1].rules[1].effect = "deny"
    /\ policies[1].rules[2].effect = "allow"
    /\ policies[1].rules[1].priority < policies[1].rules[2].priority
    /\ decisions[1].decision = "deny"
    /\ decisions[1].rule_id = Some(policies[1].rules[1].id)

(***************************************************************************)
(* C9  allow_overrides mirrors deny_overrides: a policy under              *)
(* allow_overrides and the policy with every effect and the default effect *)
(* swapped under deny_overrides yield opposite decisions with the same     *)
(* rule_id, policy_id and is_default, or the same error.                   *)
(***************************************************************************)
SwapRule(rule) == [rule EXCEPT !.effect = Opposite(rule.effect)]

SwapEffects(policy) ==
    [policy EXCEPT
        !.default_effect = Opposite(policy.default_effect),
        !.rules = [k \in DOMAIN policy.rules |-> SwapRule(policy.rules[k])],
        !.combining_algorithm = "deny_overrides"]

C9_AllowOverridesMirror ==
    \A i \in DOMAIN policies :
        (Reached(i) /\ policies[i].combining_algorithm = "allow_overrides")
        => LET mirror == evaluate_policy(SwapEffects(policies[i]), Ctx) IN
           IF mirror.ok
           THEN /\ i \in DOMAIN decisions
                /\ decisions[i].decision = Opposite(mirror.v.decision)
                /\ decisions[i].rule_id = mirror.v.rule_id
                /\ decisions[i].policy_id = mirror.v.policy_id
                /\ decisions[i].is_default = mirror.v.is_default
           ELSE /\ i \notin DOMAIN decisions
                /\ ~Res.ok
                /\ Res.e = mirror.e

\* a matching deny rule sorted ahead of a matching allow rule under
\* allow_overrides: the allow rule decides
C9_Witness ==
    /\ Decided(1)
    /\ policies[1].combining_algorithm = "allow_overrides"
    /\ Len(policies[1].rules) = 2
    /\ MatchingRules(policies[1], Ctx) = {1, 2}
    /\ policies[1].rules[1].effect = "deny"
    /\ policies[1].rules[2].effect = "allow"
    /\ policies[1].rules[1].priority >= policies[1].rules[2].priority
    /\ decisions[1].decision = "allow"
    /\ decisions[1].rule_id = Some(policies[1].rules[2].id)

(***************************************************************************)
(* C10  With a matched rule: under unanimous_allow the decision is deny    *)
(* iff a matched rule denies, naming the first such rule in sorted order;  *)
(* under unanimous_deny it is allow iff a matched rule allows, naming the  *)
(* first such rule.                                                        *)
(***************************************************************************)
C10_Unanimous ==
    \A i \in DOMAIN policies :
        LET p == policies[i]
            M == MatchingRules(p, Ctx)
            D == {k \in M : p.rules[k].effect = "deny"}
            A == {k \in M : p.rules[k].effect = "allow"}
        IN  (Decided(i) /\ M # {})
            => /\ p.combining_algorithm = "unanimous_allow"
                  => /\ i \in DOMAIN decisions
                     /\ decisions[i].decision = (IF D # {} THEN "deny" ELSE "allow")
                     /\ D # {} => decisions[i].rule_id = Some(p.rules[FirstOf(p, D)].id)
               /\ p.combining_algorithm = "unanimous_deny"
                  => /\ i \in DOMAIN decisions
                     /\ decisions[i].decision = (IF A # {} THEN "allow" ELSE "deny")
                     /\ A # {} => decisions[i].rule_id = Some(p.rules[FirstOf(p, A)].id)

\* unanimous_deny with a matching deny rule sorted ahead of a matching allow
\* rule: the allow rule decides
C10_Witness ==
    /\ Decided(1)
    /\ policies[1].combining_algorithm = "unanimous_deny"
    /\ Len(policies[1].rules) = 2
    /\ MatchingRules(policies[1], Ctx) = {1, 2}
    /\ policies[1].rules[1].effect = "allow"
    /\ policies[1].rules[2].effect = "deny"
    /\ policies[1].rules[1].priority < policies[1].rules[2].priority
    /\ decisions[1].decision = "allow"
    /\ decisions[1].rule_id = Some(policies[1].rules[1].id)

(***************************************************************************)
(* C11  A rule matches a context iff every one of its conditions           *)
(* evaluates to true; a rule without conditions matches every valid        *)
(* context and raises no error.  Consequently a decided policy returns a   *)
(* rule decision exactly when some rule has all its conditions true.       *)
(***************************************************************************)
AllConditionsTrue(rule, ctx) ==
    \A j \in DOMAIN rule.conditions :
        evaluate_condition(rule.conditions[j], ctx) = Ok(TRUE)

C11_RuleMatchesIffAllConditions ==
    (Evaluated /\ ValidContext(Ctx))
    => \A i \in DOMAIN policies :
          /\ \A k \in DOMAIN policies[i].rules :
                LET rule == policies[i].rules[k] IN
                /\ Matches(rule, Ctx) <=> AllConditionsTrue(rule, Ctx)
                /\ rule.conditions = <<>> => evaluate_rule(rule, Ctx) = Ok(TRUE)
          /\ Decided(i)
             => /\ i \in DOMAIN decisions
                /\ decisions[i].is_default
                   <=> \A k \in DOMAIN policies[i].rules :
                          ~AllConditionsTrue(policies[i].rules[k], Ctx)

\* a rule with two conditions, both true, decides
C11_Witness ==
    /\ Decided(1)
    /\ Len(policies[1].rules) = 1
    /\ Len(policies[1].rules[1].conditions) = 2
    /\ policies[1].rules[1].conditions[1] # policies[1].rules[1].conditions[2]
    /\ AllConditionsTrue(policies[1].rules[1], Ctx)
    /\ decisions[1].rule_id = Some(policies[1].rules[1].id)

(***************************************************************************)
(* C12  exists is true exactly when the field path resolves, not_exists is *)
(* its complement, and neither errors; every other operator on a path that *)
(* does not resolve (role without a role, resource.owner_id without an     *)
(* owner, an unknown path) yields ConditionError "Field '<path>' not       *)
(* found", which evaluate returns when the condition is the first one      *)
(* reached.                                                                *)
(***************************************************************************)
\* the conditions of the loaded policies
LoadedConditions ==
    UNION {UNION {{policies[i].rules[k].conditions[j] :
                      j \in DOMAIN policies[i].rules[k].conditions} :
                  k \in DOMAIN policies[i].rules} :
           i \in DOMAIN policies}

ExistenceOperators == {"exists", "not_exists"}

FieldNotFound(path) == ConditionError("Field '" \o path \o "' not found")

C12_ExistenceAndAbsence ==
    Evaluated
    => /\ \A c \in LoadedConditions :
             LET present == is_some(get_value(Ctx, c.field))
                 r == evaluate_condition(c, Ctx)
             IN  /\ c.operator = "exists" => r = Ok(present)
                 /\ c.operator = "not_exists" => r = Ok(~present)
                 /\ (c.operator \notin ExistenceOperators /\ ~present)
                    => r = Err(FieldNotFound(c.field))
                 /\ c.field = "role" => (present <=> Ctx.role # None)
                 /\ c.field = "resource.owner_id"
                    => (present <=> Ctx.resource.owner_id # None)
                 /\ c.field = "subject.id" => ~present
       /\ ( /\ ValidContext(Ctx)
            /\ Len(policies) = 1
            /\ Len(policies[1].rules) = 1
            /\ policies[1].rules[1].conditions # <<>> )
          => LET c == policies[1].rules[1].conditions[1] IN
             ( /\ c.operator \notin ExistenceOperators
               /\ is_none(get_value(Ctx, c.field)) )
             => Res = Err(FieldNotFound(c.field))

\* a context without a role meets a rule that compares the role
C12_Witness ==
    /\ Evaluated
    /\ ValidContext(Ctx)
    /\ Ctx.role = None
    /\ Len(policies) = 1
    /\ policies[1].rules[1].conditions # <<>>
    /\ policies[1].rules[1].conditions[1] = RoleIs("member")
    /\ Res = Err(FieldNotFound("role"))

(***************************************************************************)
(* C13  evaluate is pure: a call leaves the policy list and the context it *)
(* was handed unchanged, and any two calls on the same evaluator with      *)
(* equal contexts return the same outcome (the same error, or the same     *)
(* decision but for evaluation_time_us), whatever was evaluated in         *)
(* between; the outcome is that of a first call on the same policies.      *)
(***************************************************************************)
CallsAgree ==
    /\ \A a, b \in DOMAIN calls :
          calls[a].context = calls[b].context
          => calls[a].outcome = calls[b].outcome
    /\ calls # <<>>
       => /\ Evaluated
          /\ Ctx = calls[Len(calls)].context
          /\ Outcome(Res) = calls[Len(calls)].outcome

EvaluateFrame ==
    is_some(result') => policies' = policies

CanonValue == unwrap(canon_value)
CanonOut == unwrap(canon_output)
Canonicalized == is_some(canon_value) /\ is_some(canon_output)

RECURSIVE Reorderings(_)
\* one reordering chosen for each child
ChildChoices(children) ==
    {g \in [DOMAIN children ->
                UNION {Reorderings(children[i]) : i \in DOMAIN children}] :
        \A i \in DOMAIN children : g[i] \in Reorderings(children[i])}

Reorderings(v) ==
    CASE v.t = "obj" ->
           {JMap([i \in DOMAIN v.m |-> <<v.m[p[i]][1], g[p[i]]>>]) :
               p \in Permutations(DOMAIN v.m),
               g \in ChildChoices([i \in DOMAIN v.m |-> v.m[i][2]])}
      [] v.t = "arr" -> {JArr(g) : g \in ChildChoices(v.a)}
      [] OTHER -> {v}

\* the position of entry i among the entries listed by ascending key
KeyRank(entries, i) ==
    1 + Cardinality({j \in DOMAIN entries :
                        str_cmp(entries[j][1], entries[i][1]) = "Less"})

RECURSIVE Joined(_, _)
Joined(texts, k) ==
    IF k > Len(texts) THEN ""
    ELSE (IF k > 1 THEN "," ELSE "") \o texts[k] \o Joined(texts, k + 1)

RECURSIVE SortedText(_)
SortedText(v) ==
    CASE v.t = "obj" ->
           "{" \o Joined([k \in DOMAIN v.m |->
                            LET i == CHOOSE i \in DOMAIN v.m : KeyRank(v.m, i) = k
                            IN  write_escaped_string(v.m[i][1]) \o ":"
                                    \o SortedText(v.m[i][2])], 1) \o "}"
      [] v.t = "arr" ->
           "[" \o Joined([k \in DOMAIN v.a |-> SortedText(v.a[k])], 1) \o "]"
      [] OTHER -> write_canonical(v)

C14_KeyOrderIndependent ==
    Canonicalized
    => /\ CanonOut = Ok(SortedText(CanonValue))
       /\ \A w \in Reorderings(CanonValue) : canonicalize(w) = CanonOut

\* the value of test_canonicalize_nested
C14_Witness ==
    /\ canon_value =
          Some(JMap(<< <<"z", JMap(<< <<"b", JNum(2)>>, <<"a", JNum(1)>> >>)>>,
                       <<"a", JArr(<<JNum(3), JNum(1), JNum(2)>>)>> >>))
    /\ canon_output = Some(Ok("{\"a\":[3,1,2],\"z\":{\"a\":1,\"b\":2}}"))
    /\ Cardinality(Reorderings(CanonValue)) = 4

(***************************************************************************)
(* C15  canonicalization is a fixed point under re-parsing: parsing the    *)
(* text canonicalize returned and canonicalizing the parsed value returns  *)
(* the same text again, for nulls, booleans, integers, strings with CR,    *)
(* LF, TAB, quote, backslash and other control characters, arrays and      *)
(* objects.                                                                *)
(***************************************************************************)
ReparseKeepsOutput ==
    is_some(canon_output)
    => /\ is_some(canon_value')
       /\ canon_output' = canon_output
       /\ CanonOut.ok

C15_ReparseFixedPoint == [][ReparseKeepsOutput]_vars

\* the text of a string with an LF and a form feed, parsed and canonicalized
\* again
C15_Witness ==
    /\ Canonicalized
    /\ CanonValue = JStr("\n\f")
    /\ CanonOut = Ok("\"\\n\\u000c\"")
    /\ from_str(CanonOut.v) = Ok(CanonValue)
    /\ canonicalize_json(CanonOut.v) = CanonOut

(***************************************************************************)
(* C16  for a string value canonicalize first replaces every CR LF pair    *)
(* and every remaining CR by one LF and then escapes: quote, backslash, LF *)
(* and TAB become the two-character escapes, any other control character   *)
(* becomes \u and four lowercase hex digits, every other character is      *)
(* written as it is; so the text holds no \r escape and no raw control     *)
(* character.                                                              *)
(***************************************************************************)
\* s from position i on with its line endings normalised: the CR of a
\* CR LF pair is dropped, any other CR reads LF
RECURSIVE LineEndingsNormalized(_, _)
LineEndingsNormalized(s, i) ==
    IF i > Len(s) THEN ""
    ELSE IF char_at(s, i) = "\r" /\ i < Len(s) /\ char_at(s, i + 1) = "\n"
         THEN LineEndingsNormalized(s, i + 1)
    ELSE (IF char_at(s, i) = "\r" THEN "\n" ELSE char_at(s, i))
             \o LineEndingsNormalized(s, i + 1)

EscapeOf(c) ==
    CASE c = "\"" -> "\\\""
      [] c = "\\" -> "\\\\"
      [] c = "\n" -> "\\n"
      [] c = "\t" -> "\\t"
      [] c \notin {"\"", "\\", "\n", "\t"} /\ is_control(c)
           -> "\\u" \o hex4(char_code(c))
      [] OTHER -> c

RECURSIVE EscapedText(_, _)
EscapedText(s, i) ==
    IF i > Len(s) THEN "" ELSE EscapeOf(char_at(s, i)) \o EscapedText(s, i + 1)

\* the characters that follow an escaping backslash in text from position i
RECURSIVE EscapeLetters(_, _)
EscapeLetters(text, i) ==
    IF i > Len(text) THEN {}
    ELSE IF char_at(text, i) = "\\"
         THEN {char_at(text, i + 1)} \cup EscapeLetters(text, i + 2)
    ELSE EscapeLetters(text, i + 1)

NoRawControl(text) == \A i \in 1..Len(text) : ~is_control(char_at(text, i))

LinkVerifies(i) ==
    /\ chain[i].prev_hash = (IF i = 1 THEN "h:genesis" ELSE chain[i - 1].head_hash)
    /\ verify_chain_link(chain[i].prev_hash, chain[i].cid, chain[i].head_hash)

Verified == unwrap(verified)

C17_ChainContinuity ==
    /\ \A i \in DOMAIN chain : LinkVerifies(i)
    /\ is_some(verified)
       => (Verified.outcome
           <=> Verified.expected_hash
                  = compute_head_hash(Verified.prev_hash, Verified.cid))

\* the second link of a chain, refused with the head hash the same cid has
\* when linked from the genesis hash
C17_Witness ==
    /\ Len(chain) = 2
    /\ is_some(verified)
    /\ Verified.prev_hash = chain[2].prev_hash
    /\ Verified.cid = chain[2].cid
    /\ Verified.expected_hash = compute_head_hash(GENESIS_HASH, chain[2].cid)
    /\ Verified.expected_hash # chain[2].head_hash
    /\ ~Verified.outcome

(***************************************************************************)
(* C18  get_value returns None for every field path of three or more       *)
(* dot-separated segments (identity.user_id.x, role.x.y, attributes.k.sub),*)
(* whatever the context.  This is the statement as claimed; get_value      *)
(* reads at most the first two segments and ignores the rest.              *)
(***************************************************************************)
DeepPath(field_path) == Len(split(field_path)) >= 3

C18_DeepPathsNone ==
    Evaluated
    => \A c \in LoadedConditions :
          DeepPath(c.field) => get_value(Ctx, c.field) = None

(***************************************************************************)
(* C19  a rule that omits priority is accepted by Policy::from_yaml,       *)
(* Policy::from_json and load_policy_yaml, and the loaded rule has         *)
(* priority 0.  This is the statement as claimed; Rule.priority carries no *)
(* serde default, so such a document is rejected for its missing field.    *)
(***************************************************************************)
Document == unwrap(document)
LoadedBy == unwrap(loaded).function
LoadResult == unwrap(loaded).result

YamlWithoutPriority == YamlPolicy("test", "Test", YamlRule(None))
JsonWithoutPriority == JsonPolicy("test", "Test", JsonRule(None))

\* the policy of those documents with priority 0 in its rule
PolicyWithPriorityZero ==
    MkPolicy("test", "Test", <<MkRule("allow-all", "allow", <<>>, 0)>>,
             "deny_overrides", "deny")

C19_PriorityDefaultsToZero ==
    is_some(loaded)
    => /\ (LoadedBy = "from_yaml" /\ Document = YamlWithoutPriority)
          => LoadResult = Ok(PolicyWithPriorityZero)
       /\ (LoadedBy = "from_json" /\ Document = JsonWithoutPriority)
          => LoadResult = Ok(PolicyWithPriorityZero)
       /\ (LoadedBy = "load_policy_yaml" /\ Document = YamlWithoutPriority)
          => /\ LoadResult.ok
             /\ policies # <<>>
             /\ policies[Len(policies)] = PolicyWithPriorityZero

(***************************************************************************)
(* C20  parse_policies_yaml splits its input only at the lines that are    *)
(* exactly ---, so three dashes inside a longer line start no document;    *)
(* every non-empty document gives one policy and the policies come in      *)
(* document order.  This is the statement as claimed; the function splits  *)
(* at every occurrence of the three characters.                            *)
(***************************************************************************)
\* the texts between the lines that are exactly ---
RECURSIVE line_documents(_, _, _)
line_documents(lines, k, current) ==
    IF k > Len(lines) THEN <<current>>
    ELSE IF lines[k] = "---"
         THEN <<current>> \o line_documents(lines, k + 1, "")
    ELSE line_documents(lines, k + 1, current \o lines[k] \o "\n")

LineDocuments(text) ==
    SelectSeq(line_documents(str_split(text, "\n"), 1, ""),
              LAMBDA doc : trim(doc) # "")

C20_SplitsAtSeparatorLines ==
    (/\ is_some(loaded)
     /\ LoadedBy = "parse_policies_yaml"
     /\ \A i \in DOMAIN LineDocuments(Document) :
            from_yaml(LineDocuments(Document)[i]).ok)
    => LoadResult = Ok([i \in DOMAIN LineDocuments(Document) |->
                           from_yaml(LineDocuments(Document)[i]).v])

(***************************************************************************)
(* C21  Policy::from_yaml and Policy::from_json return a policy only if    *)
(* its id and name are non-empty, every rule id is non-empty and every     *)
(* condition field is non-empty; a document that deserializes to a policy  *)
(* breaking any of these is rejected with ValidationError.                 *)
(***************************************************************************)
PolicyInvariants(policy) ==
    /\ policy.id # ""
    /\ policy.name # ""
    /\ \A k \in DOMAIN policy.rules :
          /\ policy.rules[k].id # ""
          /\ \A j \in DOMAIN policy.rules[k].conditions :
                policy.rules[k].conditions[j].field # ""

\* the policy the document deserializes to, before any validation
Deserialized(function, text) ==
    IF function = "from_yaml"
    THEN Try(yaml_from_str(text), LAMBDA parsed : deserialize_struct("Policy", parsed))
    ELSE Try(from_str(text), LAMBDA parsed : deserialize_struct("Policy", parsed))

C21_OnlyValidPolicies ==
    (is_some(loaded) /\ LoadedBy \in {"from_yaml", "from_json"})
    => /\ LoadResult.ok => PolicyInvariants(LoadResult.v)
       /\ (/\ Deserialized(LoadedBy, Document).ok
           /\ ~PolicyInvariants(Deserialized(LoadedBy, Document).v))
          => /\ ~LoadResult.ok
             /\ LoadResult.e.type = "ValidationError"

\* the empty condition field of a second rule
C21_Witness ==
    /\ is_some(loaded)
    /\ LoadedBy = "from_yaml"
    /\ Document = YamlPolicy("test", "Test",
                      YamlRule(Some(0)) \o YamlConditionRule("r1", EmptyYaml))
    /\ Deserialized(LoadedBy, Document).ok
    /\ LoadResult = Err(ValidationError("Condition field is required in rule 'r1'"))

(***************************************************************************)
(* C22: after any sequence of add_policy and load_policy_yaml calls every  *)
(* policy the evaluator holds satisfies the Policy invariants: non-empty   *)
(* id, non-empty name, every rule with a non-empty id and every condition  *)
(* with a non-empty field.                                                 *)
(***************************************************************************)
C22_HeldPoliciesValid ==
    \A i \in DOMAIN policies : PolicyInvariants(policies[i])

(***************************************************************************)
(* C23: the policy list is exactly the policies of the successful          *)
(* add_policy, load_policy_yaml and load_policy_json calls, in call order: *)
(* a successful call appends one policy at the end, a failed load leaves   *)
(* the list as it was, and policy_count is the number of successful calls. *)
(***************************************************************************)
\* WasmPolicyEngine::policy_count
policy_count == Len(policies)

C23_ListIsSuccessfulCalls ==
    /\ policies = added
    /\ policy_count = Len(added)

\* a load that failed on an evaluator holding one policy
C23_Witness ==
    /\ is_some(loaded)
    /\ LoadedBy \in {"load_policy_yaml", "load_policy_json"}
    /\ ~LoadResult.ok
    /\ policy_count = 1
    /\ added = <<Policy_new("new", "New")>>

(***************************************************************************)
(* C24: on every present field value L and every literal R, not_equals,    *)
(* not_contains and not_in return the negation of equals, contains and in  *)
(* on the same pair and never an error; not_in is true whenever R is not   *)
(* an array, and not_contains is true whenever L is neither an array nor,  *)
(* with R a string, a string.                                              *)
(***************************************************************************)
Negated ==
    [not_equals |-> "equals", not_contains |-> "contains", not_in |-> "in"]

\* the paths read for a left operand
OperandPaths ==
    {"role", "identity.user_id", "resource.owner_id", "attributes.level",
     "attributes.tags", "attributes"}

PresentValues(ctx) ==
    {unwrap(get_value(ctx, path)) :
        path \in {f \in OperandPaths \cup {c.field : c \in LoadedConditions} :
                    is_some(get_value(ctx, f))}}

Literals ==
    {JNull, JBool(TRUE), JNum(3), JStr("member"), JStr("mem"), JStr("b"),
     JStr(""), JStrArr(<<"member", "admin">>), JStrArr(<<"a", "b">>),
     JArr(<<JNum(3), JStr("b")>>), JArr(<<>>)}
    \cup {c.value : c \in LoadedConditions}

NegationOf(operator, left, right) ==
    LET negative == evaluate_operator(operator, left, right)
        positive == evaluate_operator(Negated[operator], left, right)
    IN  /\ negative.ok
        /\ positive.ok
        /\ negative.v = ~positive.v
        /\ (operator = "not_in" /\ is_none(as_array(right))) => negative.v
        /\ ( /\ operator = "not_contains"
             /\ is_none(as_array(left))
             /\ ~(is_some(as_str(left)) /\ is_some(as_str(right))) )
           => negative.v

C24_NegatedOperators ==
    Evaluated
    => /\ \A left \in PresentValues(Ctx) : \A right \in Literals :
             \A operator \in DOMAIN Negated : NegationOf(operator, left, right)
       /\ ( /\ ValidContext(Ctx)
            /\ Len(policies[1].rules[1].conditions) = 1
            /\ policies[1].rules[1].conditions[1].operator \in DOMAIN Negated
            /\ is_some(get_value(Ctx, policies[1].rules[1].conditions[1].field)) )
          => LET c == policies[1].rules[1].conditions[1] IN
             /\ Res.ok
             /\ Matches(policies[1].rules[1], Ctx)
                <=> evaluate_operator(Negated[c.operator],
                        unwrap(get_value(Ctx, c.field)), c.value) = Ok(FALSE)

\* a role tested against a literal that is not an array: the rule matches
C24_Witness ==
    /\ Evaluated
    /\ ValidContext(Ctx)
    /\ Ctx.role = Some("member")
    /\ policies[1].rules[1].conditions
         = <<MkCondition("role", "not_in", JStr("member"))>>
    /\ Res.ok
    /\ Res.v.decision = "allow"
    /\ Res.v.rule_id = Some("r")

(***************************************************************************)
(* C25: adding a policy never turns a deny into an allow: when evaluate    *)
(* returns deny on a valid context, after add_policy(q) the same call      *)
(* returns an error or the identical deny decision (same reason, rule_id,  *)
(* policy_id, is_default).  It holds of an evaluator that held a policy    *)
(* before the call; the default deny of an empty evaluator is replaced by  *)
(* the decision of the first policy added.                                 *)
(***************************************************************************)
\* the evaluator before its last add_policy call
BeforeAdd == SubSeq(policies, 1, Len(policies) - 1)

\* evaluate on the policies held before and after that call
ResultBefore(ctx) == evaluate_call(BeforeAdd, ctx, 0).result
ResultAfter(ctx) == evaluate_call(policies, ctx, 0).result

DenyKept(ctx) ==
    (ResultBefore(ctx).ok /\ is_denied(ResultBefore(ctx).v))
    => \/ ~ResultAfter(ctx).ok
       \/ ResultAfter(ctx).v = ResultBefore(ctx).v

\* the claim as stated: of every evaluator state, the empty one included
C25_Original ==
    policies # <<>> => \A ctx \in ValidContexts : DenyKept(ctx)

C25_DenyKeptByAddPolicy ==
    Len(policies) >= 2
    => /\ \A ctx \in ValidContexts : DenyKept(ctx)
       /\ ( /\ Evaluated
            /\ ValidContext(Ctx)
            /\ ResultBefore(Ctx).ok
            /\ is_denied(ResultBefore(Ctx).v) )
          => \/ ~Res.ok
             \/ [Res.v EXCEPT !.evaluation_time_us = Some(0)]
                  = ResultBefore(Ctx).v

\* the policy added last allows on its own, and the deny of the first stays
C25_Witness ==
    /\ Evaluated
    /\ ValidContext(Ctx)
    /\ Len(policies) = 2
    /\ ResultBefore(Ctx).ok
    /\ is_denied(ResultBefore(Ctx).v)
    /\ evaluate_call(<<policies[2]>>, Ctx, 0).result.ok
    /\ is_allowed(evaluate_call(<<policies[2]>>, Ctx, 0).result.v)
    /\ Res.ok
    /\ is_denied(Res.v)
    /\ Res.v.policy_id = Some(policies[1].id)

(***************************************************************************)
(* C26: within a rule the conditions are evaluated in list order and the   *)
(* evaluation stops at the first false one: a rule whose earlier condition *)
(* is false is a non-match without error even when a later condition would *)
(* raise a ConditionError, so reordering the conditions of a rule can turn *)
(* a decision into an error.                                               *)
(***************************************************************************)
\* the first condition of the list that is not true, 0 when all are
FirstNotTrue(conditions, ctx) ==
    IF \A k \in DOMAIN conditions : evaluate_condition(conditions[k], ctx) = Ok(TRUE)
    THEN 0
    ELSE CHOOSE k \in DOMAIN conditions :
            /\ evaluate_condition(conditions[k], ctx) # Ok(TRUE)
            /\ \A j \in 1..(k - 1) :
                  evaluate_condition(conditions[j], ctx) = Ok(TRUE)

Reversed(conditions) ==
    [k \in DOMAIN conditions |-> conditions[Len(conditions) + 1 - k]]

\* the evaluator whose one rule has its conditions in the opposite order
ReorderedPolicies ==
    <<[policies[1] EXCEPT !.rules[1].conditions = Reversed(@)]>>

C26_StopsAtFirstFalse ==
    (Evaluated /\ ValidContext(Ctx) /\ Len(policies[1].rules) = 1)
    => LET conditions == policies[1].rules[1].conditions
           stop == FirstNotTrue(conditions, Ctx)
       IN  /\ stop = 0 => (Res.ok /\ Res.v.rule_id = Some(policies[1].rules[1].id))
           /\ (stop # 0 /\ evaluate_condition(conditions[stop], Ctx) = Ok(FALSE))
              => (Res.ok /\ Res.v.is_default /\ Res.v.rule_id = None)
           /\ (stop # 0 /\ ~evaluate_condition(conditions[stop], Ctx).ok)
              => Res = evaluate_condition(conditions[stop], Ctx)
           /\ ( /\ Len(conditions) = 2
                /\ evaluate_condition(conditions[1], Ctx) = Ok(FALSE)
                /\ ~evaluate_condition(conditions[2], Ctx).ok )
              => /\ Res.ok
                 /\ ~evaluate_call(ReorderedPolicies, Ctx, 0).result.ok

\* a false role test placed before a comparison that would not evaluate
C26_Witness ==
    /\ Evaluated
    /\ ValidContext(Ctx)
    /\ Ctx.role = Some("guest")
    /\ policies[1].rules[1].conditions
         = <<RoleIs("member"),
             MkCondition("identity.user_id", "greater_than", JNum(1))>>
    /\ Res.ok
    /\ Res.v.is_default
    /\ evaluate_call(ReorderedPolicies, Ctx, 0).result
         = Err(ConditionError("Left value is not a number"))

(***************************************************************************)
(* C27: evaluate evaluates every rule of every loaded policy before it     *)
(* combines anything: it returns a decision only if no rule of any loaded  *)
(* policy errors on the context.  A rule that errors aborts the call even  *)
(* when, under first_applicable, a rule of higher priority in the same     *)
(* policy has matched, and even when an earlier policy has denied.         *)
(***************************************************************************)
\* under first_applicable a rule matches ahead of one that errors
MatchedAheadOfError(policy, ctx) ==
    /\ policy.combining_algorithm = "first_applicable"
    /\ \E k, j \in DOMAIN policy.rules :
          /\ Before(policy, k, j)
          /\ Matches(policy.rules[k], ctx)
          /\ ~evaluate_rule(policy.rules[j], ctx).ok

\* a policy denies ahead of policy i, which errors
DeniedAheadOfError(i, ctx) ==
    /\ ~NoRuleErrors(policies[i], ctx)
    /\ \E h \in 1..(i - 1) :
          /\ evaluate_policy(policies[h], ctx).ok
          /\ is_denied(evaluate_policy(policies[h], ctx).v)

C27_EveryRuleEvaluated ==
    (Evaluated /\ ValidContext(Ctx))
    => /\ Res.ok <=> \A i \in DOMAIN policies : NoRuleErrors(policies[i], Ctx)
       /\ \A i \in DOMAIN policies :
             \/ MatchedAheadOfError(policies[i], Ctx)
             \/ DeniedAheadOfError(i, Ctx)
             => /\ ~Res.ok
                /\ Res.e.type = "ConditionError"

\* a policy denies, and in the next an unconditional allow of priority 10
\* matches ahead of a rule that reads the owner the resource does not have
C27_Witness ==
    /\ Evaluated
    /\ ValidContext(Ctx)
    /\ policies = <<ClosedPolicy, OwnerPolicy>>
    /\ Ctx.resource.owner_id = None
    /\ MatchedAheadOfError(policies[2], Ctx)
    /\ DeniedAheadOfError(2, Ctx)
    /\ Res = Err(FieldNotFound("resource.owner_id"))

(***************************************************************************)
(* C28: a decision returned with at least one policy loaded is, but for    *)
(* evaluation_time_us, the per-policy decision of the first policy in      *)
(* insertion order that denies or, when none denies, of the first policy;  *)
(* its policy_id is the id of a loaded policy, and its rule_id is absent   *)
(* exactly when is_default is true and otherwise names a matched rule of   *)
(* that policy.                                                            *)
(***************************************************************************)
PolicyDecisionOf(i) == evaluate_policy(policies[i], Ctx).v

\* the policy whose decision is returned
Deciding ==
    IF \E i \in DOMAIN policies : is_denied(PolicyDecisionOf(i))
    THEN CHOOSE i \in DOMAIN policies :
            /\ is_denied(PolicyDecisionOf(i))
            /\ \A h \in 1..(i - 1) : ~is_denied(PolicyDecisionOf(h))
    ELSE 1

C28_DecisionOfFirstDenyOrFirst ==
    (Evaluated /\ Res.ok /\ policies # <<>>)
    => /\ WithoutTime(Res.v) = WithoutTime(PolicyDecisionOf(Deciding))
       /\ Res.v.policy_id = Some(policies[Deciding].id)
       /\ is_none(Res.v.rule_id) <=> Res.v.is_default
       /\ is_some(Res.v.rule_id)
          => \E k \in MatchingRules(policies[Deciding], Ctx) :
                policies[Deciding].rules[k].id = unwrap(Res.v.rule_id)

\* two policies allow by different rules: the decision is that of the first
C28_Witness ==
    /\ Evaluated
    /\ Res.ok
    /\ policies = <<DenyOverridePolicy, BasicPolicy>>
    /\ is_allowed(PolicyDecisionOf(1))
    /\ is_allowed(PolicyDecisionOf(2))
    /\ Res.v.policy_id = Some("deny-override-policy")
    /\ Res.v.rule_id = Some("allow-all")
    /\ ~Res.v.is_default

(***************************************************************************)
(* C29: compute_head_hash depends on prev_hash and cid only through the    *)
(* string prev_hash ":" cid: two pairs that join to the same string, such  *)
(* as ("h:a", "b:c") and ("h:a:b", "c"), have the same head hash, and      *)
(* verify_chain_link accepts the head hash of one as a link of the other.  *)
(***************************************************************************)
LinkString(prev_hash, cid) == prev_hash \o ":" \o cid

C29_JoinedStringOnly ==
    is_some(verified)
    => \A p \in ColonHashes \cup KnownHashes, c \in ColonCids \cup CidPool :
          LinkString(p, c) = LinkString(Verified.prev_hash, Verified.cid)
          => /\ compute_head_hash(p, c)
                  = compute_head_hash(Verified.prev_hash, Verified.cid)
             /\ verify_chain_link(p, c, Verified.expected_hash)
                  <=> Verified.outcome

\* the head hash of ("h:a", "b:c") accepted as the link of "c" to "h:a:b"
C29_Witness ==
    /\ is_some(verified)
    /\ Verified.prev_hash = "h:a:b"
    /\ Verified.cid = "c"
    /\ Verified.expected_hash = compute_head_hash("h:a", "b:c")
    /\ Verified.outcome

(***************************************************************************)
(* C30: line endings are normalised in string values and not in object     *)
(* keys: string values that differ only in line-ending style (CR LF, CR or *)
(* LF) have the same canonical text and the same canonical_hash, while     *)
(* objects whose keys differ only in line-ending style have different      *)
(* canonical texts, a CR in a key being written with the escape \r.        *)
(***************************************************************************)
SameButLineEndings(s, t) ==
    LineEndingsNormalized(s, 1) = LineEndingsNormalized(t, 1)

\* the entries of an object as a map
EntrySet(entries) == {entries[i] : i \in DOMAIN entries}

\* the objects with the values of this one under keys that differ from its
\* keys in line-ending style at most
KeyVariants(v) ==
    {w \in FlatObjects :
        /\ Len(w.m) = Len(v.m)
        /\ \A i \in DOMAIN v.m :
              /\ w.m[i][2] = v.m[i][2]
              /\ SameButLineEndings(w.m[i][1], v.m[i][1])}

HasCR(s) == \E i \in 1..Len(s) : char_at(s, i) = "\r"

C30_KeysNotNormalized ==
    (Canonicalized /\ CanonOut.ok)
    => /\ CanonValue.t = "str"
          => \A t \in CanonStrings :
                SameButLineEndings(t, CanonValue.s)
                => /\ canonicalize(JStr(t)) = CanonOut
                   /\ canonical_hash(JStr(t)) = canonical_hash(CanonValue)
       /\ (CanonValue.t = "obj" /\ Len(CanonValue.m) <= MaxEntries)
          => /\ \A w \in KeyVariants(CanonValue) :
                   EntrySet(w.m) # EntrySet(CanonValue.m)
                   => canonicalize(w) # CanonOut
             /\ (\E i \in DOMAIN CanonValue.m : HasCR(CanonValue.m[i][1]))
                <=> "r" \in EscapeLetters(CanonOut.v, 1)

\* a key and a value with the same CR: the key keeps it, the value does not
C30_Witness ==
    /\ canon_value = Some(JMap(<< <<"a\r", JStr("a\r")>> >>))
    /\ canon_output = Some(Ok("{\"a\\r\":\"a\\n\"}"))
    /\ JMap(<< <<"a\n", JStr("a\r")>> >>) \in KeyVariants(CanonValue)
    /\ canonicalize(JMap(<< <<"a\n", JStr("a\r")>> >>))
         = Ok("{\"a\\n\":\"a\\n\"}")

====
